---- MODULE Spec2Model ----
(***************************************************************************)
(* Model of the route / ETA / congestion core of the shipping tracker:     *)
(*   seaRoutes.js      calculateRoute, splitRouteByPosition                *)
(*   unnamed/part_000  the later seaRoutes.js: calculateRouteDistance,     *)
(*                     getVesselTypeSpeed, adjustSpeedForWeather and the   *)
(*                     estimateArrival that takes options                  *)
(*   bottlenecks.js    calculateRouteBottleneckDelay,                      *)
(*                     calculateDynamicSeverity, getTimeBasedCongestion,   *)
(*                     congestionCache                                     *)
(* One specification per function: SpecRoute, SpecSplit, SpecDelay,        *)
(* SpecEta, SpecSpeed, SpecWeather, SpecProximity, SpecSeverity.  Each     *)
(* draws the arguments of a call in its initial state and applies the      *)
(* function in its action.  SpecLive follows one call of the asynchronous  *)
(* getBottlenecks through the settlement of its weather requests.          *)
(*   server.js         ensureRoute (SpecEnsure), the notification          *)
(*                     scheduler and endpoints (SpecNotify), the position  *)
(*                     refresh (SpecRefresh), GET /api/bottlenecks         *)
(*                     (SpecEndpoint)                                      *)
(* SpecDownsample applies downsampleCoordinates of seaRoutes.js alone.     *)
(* In the specifications of server.js `call` holds the module state the    *)
(* handlers share and `rets` the asynchronous invocations under way.       *)
(*                                                                         *)
(* Representation.                                                         *)
(*  - Coordinates are whole degrees taken from a small grid (Deg \X Deg).  *)
(*    The grid holds latitude 0 and longitude 0 (values JavaScript treats  *)
(*    as falsy) as well as non-zero values.                                *)
(*  - A distance is an integer number of metres: HaversineTable holds      *)
(*    round(6371e3 * c) of the haversine formula for every pair of grid    *)
(*    points (the kilometre variant of seaRoutes.js is the same number     *)
(*    read as 1e-3 km).  Rounding to the metre keeps every order and       *)
(*    every equality between grid distances that IEEE doubles give.        *)
(*  - Time is in minutes since the Unix epoch.                             *)
(*  - A name is the sequence of the parts of its template literal:         *)
(*    `Waypoint ${index}` is <<"Waypoint ", index>>, 'Origin' is <<"Origin">>.*)
(*  - A JavaScript value that may be null / undefined is a record with a   *)
(*    boolean tag (isNull, has...) beside the value.                       *)
(***************************************************************************)
EXTENDS Integers, Sequences, FiniteSets, TLC

VARIABLES
    pc,               \* position of the caller: "ready" before the call, then the name of the last step
    now,              \* Date.now() in minutes since the epoch
    congestionCache,  \* bottlenecks.js:24  zone id -> cached weather entry
    call,             \* arguments of the call under study (and what its collaborators will answer)
    rets              \* values returned by the successive calls made with `call`

vars == <<pc, now, congestionCache, call, rets>>

-----------------------------------------------------------------------------
(* Bounds of the model *)

\* longest vertex list the external router returns
MaxCoords == 162
\* longest route handed to the splitter / the attribution / the estimator
MaxRoute == 3
\* minutes that pass between two calls made with the same arguments
MaxTicks == 2

-----------------------------------------------------------------------------
(* Sample coordinates and the haversine distance *)

Deg == {0, 1, 2}

Abs(x) == IF x < 0 THEN -x ELSE x

Min(a, b) == IF a <= b THEN a ELSE b

\* round(6371e3 * 2 * atan2(sqrt(a), sqrt(1 - a))) for grid points, keyed by
\* <<|lat2 - lat1|, |lng2 - lng1|, min(lat1, lat2)>>: the formula depends on
\* the points only through these (a = sin^2(dLat/2) + cos(lat1) cos(lat2) sin^2(dLng/2)).
HaversineTable ==
    ( <<0, 0, 0>> :> 0      @@ <<0, 0, 1>> :> 0      @@ <<0, 0, 2>> :> 0
   @@ <<0, 1, 0>> :> 111195 @@ <<0, 1, 1>> :> 111178 @@ <<0, 1, 2>> :> 111127
   @@ <<0, 2, 0>> :> 222390 @@ <<0, 2, 1>> :> 222356 @@ <<0, 2, 2>> :> 222254
   @@ <<1, 0, 0>> :> 111195 @@ <<1, 0, 1>> :> 111195
   @@ <<1, 1, 0>> :> 157249 @@ <<1, 1, 1>> :> 157225
   @@ <<1, 2, 0>> :> 248629 @@ <<1, 2, 1>> :> 248569
   @@ <<2, 0, 0>> :> 222390 @@ <<2, 1, 0>> :> 248629 @@ <<2, 2, 0>> :> 314475 )

\* seaRoutes.js haversineDistance: kilometres, here in units of 1e-3 km
haversineDistance(lat1, lng1, lat2, lng2) ==
    HaversineTable[<<Abs(lat2 - lat1), Abs(lng2 - lng1), Min(lat1, lat2)>>]

-----------------------------------------------------------------------------
(* Route synthesizer: seaRoutes.js calculateRoute *)

\* What searoute(origin, destination) does: throws, returns null, returns a
\* feature without a coordinate array, or returns a line of n vertices.
\* The vertices are [lng, lat] pairs that wander over the grid; they do not
\* start at the requested origin or end at the requested destination in
\* general (the router snaps to its own network).
RouterVertex(seed, i) == <<(i + seed) % 3, (i * seed + 1) % 3>>

RouterLine(seed, n) == [i \in 1..n |-> RouterVertex(seed, i)]

RouterOutcomes ==
    {[kind |-> k, coords |-> <<>>] : k \in {"throw", "null", "nogeometry"}}
    \cup {[kind |-> "line", coords |-> RouterLine(seed, n)] : seed \in 1..2, n \in 0..MaxCoords}

\* JavaScript's `a || b` on strings: the empty string is falsy
OrString(a, b) == IF a = "" THEN b ELSE a

\* Number(x) on a value that already is a number
Number(x) == x

\* seaRoutes.js:22  coords.filter((_, idx) => idx % step === 0 || idx === coords.length - 1)
\* over the 0-based indices lo..hi, in order (the range is halved so that the
\* evaluation depth stays logarithmic in the length).
RECURSIVE KeepIndices(_, _, _, _)
KeepIndices(coords, lo, hi, step) ==
    IF lo > hi THEN <<>>
    ELSE IF lo = hi
         THEN (IF lo % step = 0 \/ lo = Len(coords) - 1 THEN <<coords[lo + 1]>> ELSE <<>>)
         ELSE LET mid == (lo + hi) \div 2
              IN  KeepIndices(coords, lo, mid, step) \o KeepIndices(coords, mid + 1, hi, step)

\* mutant of downsampleCoordinates: the step is rounded down
downsampleCoordinates_floorStep(coords, maxPoints) ==
    IF Len(coords) <= maxPoints THEN coords
    ELSE LET step == Len(coords) \div maxPoints
         IN  KeepIndices(coords, 0, Len(coords) - 1, step)

\* seaRoutes.js:19-23.  coords is an array here (callers pass `coords || []`).
downsampleCoordinates(coords, maxPoints) ==
    IF Len(coords) <= maxPoints THEN coords
    ELSE LET step == (Len(coords) + maxPoints - 1) \div maxPoints   \* Math.ceil(length / maxPoints)
         IN  KeepIndices(coords, 0, Len(coords) - 1, step)

\* seaRoutes.js:25-59.  The result is null (isNull) when the router throws,
\* returns null, has no coordinate array or has fewer than 2 coordinates.
\* console.log is muted during the call and restored in the finally block.
buildSeaRouteCoordinates_ok(searoute) ==
    searoute.kind = "line" /\ Len(searoute.coords) >= 2

buildSeaRouteCoordinates(searoute) ==
    IF buildSeaRouteCoordinates_ok(searoute)
    THEN [isNull |-> FALSE, coords |-> searoute.coords]
    ELSE [isNull |-> TRUE, coords |-> <<>>]

PointBudget == 80

Waypoint(lat, lng, name, type) == [lat |-> lat, lng |-> lng, name |-> name, type |-> type]

\* mutant of FallbackRoute: the destination is not pushed
FallbackRoute_originOnly(originLat, originLng, destLat, destLng, originName, destName) ==
    << [lat |-> originLat, lng |-> originLng, name |-> <<OrString(originName, "Origin")>>, type |-> "origin"] >>

\* seaRoutes.js:69-73
FallbackRoute(originLat, originLng, destLat, destLng, originName, destName) ==
    << Waypoint(originLat, originLng, <<OrString(originName, "Origin")>>, "origin"),
       Waypoint(destLat, destLng, <<OrString(destName, "Destination")>>, "destination") >>

\* mutant of ForceEndpoints: the router's snapped end points are kept
ForceEndpoints_keepSnapped(points, start, end) == points

\* seaRoutes.js:75-76
ForceEndpoints(points, start, end) ==
    [i \in 1..Len(points) |->
        IF i = Len(points) THEN end ELSE IF i = 1 THEN start ELSE points[i]]

\* mutant of RouteElement: the last index is taken to be points.length
RouteElement_lastIsLength(coord, index, n, originName, destName) ==
    LET isStart == index = 0
        isEnd   == index = n
    IN  Waypoint(Number(coord[2]), Number(coord[1]),
                 IF isStart THEN <<OrString(originName, "Origin")>>
                 ELSE IF isEnd THEN <<OrString(destName, "Destination")>>
                 ELSE <<"Waypoint ", index>>,
                 IF isStart THEN "origin" ELSE IF isEnd THEN "destination" ELSE "waypoint")

\* seaRoutes.js:78-89.  index is the 0-based array index.
RouteElement(coord, index, n, originName, destName) ==
    LET isStart == index = 0
        isEnd   == index = n - 1
    IN  Waypoint(Number(coord[2]), Number(coord[1]),
                 IF isStart THEN <<OrString(originName, "Origin")>>
                 ELSE IF isEnd THEN <<OrString(destName, "Destination")>>
                 ELSE <<"Waypoint ", index>>,
                 IF isStart THEN "origin" ELSE IF isEnd THEN "destination" ELSE "waypoint")

\* seaRoutes.js:61-92
calculateRoute(originLat, originLng, destLat, destLng, originName, destName, searoute) ==
    LET coords == buildSeaRouteCoordinates(searoute)
        points == downsampleCoordinates(IF coords.isNull THEN <<>> ELSE coords.coords, PointBudget)
        start  == <<Number(originLng), Number(originLat)>>
        end    == <<Number(destLng), Number(destLat)>>
    IN  IF Len(points) < 2
        THEN FallbackRoute(originLat, originLng, destLat, destLng, originName, destName)
        ELSE LET forced == ForceEndpoints(points, start, end)
             IN  [i \in 1..Len(forced) |->
                    RouteElement(forced[i], i - 1, Len(forced), originName, destName)]

\* Requested endpoints on the grid (equal endpoints included) and port names
Endpoints ==
    { [originLat |-> 1, originLng |-> 1, destLat |-> 2, destLng |-> 2],
      [originLat |-> 0, originLng |-> 2, destLat |-> 2, destLng |-> 0],
      [originLat |-> 1, originLng |-> 1, destLat |-> 1, destLng |-> 1] }

PortNames ==
    { [originName |-> "Kolkata", destName |-> "Norfolk"],
      [originName |-> "", destName |-> ""] }

RouteCalls ==
    { [originLat |-> e.originLat, originLng |-> e.originLng,
       destLat |-> e.destLat, destLng |-> e.destLng,
       originName |-> n.originName, destName |-> n.destName,
       searoute |-> r] : e \in Endpoints, n \in PortNames, r \in RouterOutcomes }

EmptyCache == [z \in {} |-> 0]

\* 2024-01-01 (a Monday) 05:58 UTC and 2024-01-06 (a Saturday) 13:58 UTC, in minutes
StartTimes == {28401478, 28409158}

FirstStart == CHOOSE t \in StartTimes : \A u \in StartTimes : t <= u

InitRoute ==
    /\ pc = "ready"
    /\ now = FirstStart
    /\ congestionCache = EmptyCache
    /\ call \in RouteCalls
    /\ rets = <<>>

\* A caller runs calculateRoute (server.js ensureRoute) and keeps the route.
CalculateRoute ==
    /\ pc = "ready"
    /\ rets' = <<calculateRoute(call.originLat, call.originLng, call.destLat, call.destLng,
                                call.originName, call.destName, call.searoute)>>
    /\ pc' = "calculateRoute"
    /\ UNCHANGED <<now, congestionCache, call>>

NextRoute == CalculateRoute

SpecRoute == InitRoute /\ [][NextRoute]_vars

\* The external router did not deliver a usable line
RouterFails ==
    \/ call.searoute.kind \in {"throw", "null", "nogeometry"}
    \/ Len(call.searoute.coords) < 2

\* C1: whatever the router returns, the first waypoint of the route returned
\* by calculateRoute carries exactly the requested origin coordinates and the
\* last waypoint exactly the requested destination coordinates.
C1_EndpointInvariant ==
    pc = "calculateRoute" =>
        LET route == rets[1]
        IN  /\ Len(route) >= 1
            /\ route[1].lat = call.originLat /\ route[1].lng = call.originLng
            /\ route[Len(route)].lat = call.destLat /\ route[Len(route)].lng = call.destLng

\* The router returned more vertices than the budget, snapped both ends away
\* from the requested points, and the route has been built.
C1_Witness ==
    /\ pc = "calculateRoute"
    /\ call.searoute.kind = "line" /\ Len(call.searoute.coords) > PointBudget
    /\ call.searoute.coords[1] # <<call.originLng, call.originLat>>
    /\ call.searoute.coords[Len(call.searoute.coords)] # <<call.destLng, call.destLat>>
    /\ Len(rets[1]) > 2

\* C2: when the router throws, returns null or returns fewer than 2
\* coordinates, calculateRoute returns exactly the 2-element route
\* [origin, destination], typed 'origin' and 'destination'.
C2_FallbackRoute ==
    (pc = "calculateRoute" /\ RouterFails) =>
        LET route == rets[1]
        IN  /\ Len(route) = 2
            /\ route[1].lat = call.originLat /\ route[1].lng = call.originLng
            /\ route[1].type = "origin"
            /\ route[2].lat = call.destLat /\ route[2].lng = call.destLng
            /\ route[2].type = "destination"

\* The router threw and calculateRoute has returned.
C2_Witness ==
    /\ pc = "calculateRoute"
    /\ call.searoute.kind = "throw"
    /\ Len(rets) = 1

\* C19: the route returned by calculateRoute never has more waypoints than
\* the point budget of 80 that calculateRoute hands to downsampleCoordinates.
C19_WithinPointBudget ==
    pc = "calculateRoute" => Len(rets[1]) <= PointBudget

\* C20: every route returned by calculateRoute has at least 2 elements; the
\* element at index 0 is typed 'origin', the last 'destination', every other
\* one 'waypoint' and named 'Waypoint i' with i its 0-based index; exactly one
\* element is typed origin and exactly one destination.
C20_RouteTyping ==
    pc = "calculateRoute" =>
        LET route == rets[1]
            n == Len(route)
        IN  /\ n >= 2
            /\ route[1].type = "origin"
            /\ route[n].type = "destination"
            /\ \A i \in 2..(n - 1) :
                    route[i].type = "waypoint" /\ route[i].name = <<"Waypoint ", i - 1>>
            /\ Cardinality({i \in 1..n : route[i].type = "origin"}) = 1
            /\ Cardinality({i \in 1..n : route[i].type = "destination"}) = 1

\* The router returned a line with inner vertices, equal end points were
\* requested, and the route built from it has inner waypoints.
C20_Witness ==
    /\ pc = "calculateRoute"
    /\ call.searoute.kind = "line"
    /\ call.originLat = call.destLat /\ call.originLng = call.destLng
    /\ Len(rets[1]) > 3
    /\ rets[1][2].type = "waypoint"

-----------------------------------------------------------------------------
(* Downsampling: calls of downsampleCoordinates *)

\* A line of n vertices [lng, lat] along the equator, one degree apart, so
\* that a vertex tells its index
NumberedLine(n) == [i \in 1..n |-> <<i - 1, 0>>]

\* Point budgets: the 80 of calculateRoute, the default 90, and small ones
Budgets == {1, 2, 3, 7, PointBudget, 90}

DownsampleCalls == [coords : {NumberedLine(n) : n \in 0..MaxCoords}, maxPoints : Budgets]

InitDownsample ==
    /\ pc = "ready"
    /\ now = FirstStart
    /\ congestionCache = EmptyCache
    /\ call \in DownsampleCalls
    /\ rets = <<>>

\* calculateRoute thins the router's line (seaRoutes.js:63).
DownsampleCoordinates ==
    /\ pc = "ready"
    /\ rets' = <<downsampleCoordinates(call.coords, call.maxPoints)>>
    /\ pc' = "downsampleCoordinates"
    /\ UNCHANGED <<now, congestionCache, call>>

NextDownsample == DownsampleCoordinates

SpecDownsample == InitDownsample /\ [][NextDownsample]_vars

\* C25: for N > budget the result is exactly the input elements at the
\* indices i with i % ceil(N / budget) = 0 or i = N - 1, in input order (the
\* multiples of the stride first, then the last index if it is not one of
\* them), so the first and the last input point are retained; for
\* N <= budget the input is returned unchanged.
C25_StrideSample ==
    pc = "downsampleCoordinates" =>
        LET N == Len(call.coords)
            out == rets[1]
        IN  IF N <= call.maxPoints THEN out = call.coords
            ELSE LET stride == (N + call.maxPoints - 1) \div call.maxPoints
                     multiples == ((N - 1) \div stride) + 1
                     length == IF (N - 1) % stride = 0 THEN multiples ELSE multiples + 1
                 IN  /\ Len(out) = length
                     /\ \A j \in 1..length :
                            out[j] = call.coords[(IF j <= multiples THEN (j - 1) * stride ELSE N - 1) + 1]
                     /\ out[1] = call.coords[1]
                     /\ out[Len(out)] = call.coords[N]

\* A line longer than the budget was thinned with a stride that does not
\* reach the last index, which was kept all the same.
C25_Witness ==
    /\ pc = "downsampleCoordinates"
    /\ Len(call.coords) > call.maxPoints
    /\ call.maxPoints = PointBudget
    /\ (Len(call.coords) - 1) % ((Len(call.coords) + call.maxPoints - 1) \div call.maxPoints) # 0
    /\ Len(rets[1]) > 2
    /\ rets[1][Len(rets[1])] = call.coords[Len(call.coords)]

-----------------------------------------------------------------------------
(* Route progress splitter: seaRoutes.js splitRouteByPosition *)

\* JavaScript's route.slice(from, to) with 0-based from (inclusive) and to (exclusive)
Slice(seq, from, to) == [i \in 1..(to - from) |-> seq[from + i]]

\* seaRoutes.js:109,111  the synthetic waypoint of the current position
CurrentPosition(currentLat, currentLng) ==
    Waypoint(currentLat, currentLng, <<"Current Position">>, "current")

\* mutant of Closer: `dist <= minDist`, so that the last of several equally
\* close points wins
Closer_orEqual(dist, best) == best.minDist = -1 \/ dist <= best.minDist

\* seaRoutes.js:102  `dist < minDist`, minDist starting at Infinity (here -1)
Closer(dist, best) == best.minDist = -1 \/ dist < best.minDist

\* seaRoutes.js:97-106  the scan, after the points of 0-based index < i
RECURSIVE ClosestScan(_, _, _, _, _)
ClosestScan(pts, currentLat, currentLng, i, best) ==
    IF i >= Len(pts) THEN best
    ELSE LET dist == haversineDistance(currentLat, currentLng, pts[i + 1].lat, pts[i + 1].lng)
         IN  ClosestScan(pts, currentLat, currentLng, i + 1,
                         IF Closer(dist, best)
                         THEN [minDist |-> dist, closestIndex |-> i]
                         ELSE best)

closestIndex(pts, currentLat, currentLng) ==
    ClosestScan(pts, currentLat, currentLng, 0, [minDist |-> -1, closestIndex |-> 0]).closestIndex

\* mutant of RemainingAfter: the closest point is kept in `remaining` too
RemainingAfter_fromClosest(pts, k) == Slice(pts, k, Len(pts))

\* seaRoutes.js:112  route.slice(closestIndex + 1)
RemainingAfter(pts, k) == Slice(pts, k + 1, Len(pts))

\* mutant of TooShort: only a null or empty route is returned as it is
TooShort_emptyOnly(route) == route.isNull \/ Len(route.pts) < 1

\* seaRoutes.js:95  !route || route.length < 2
TooShort(route) == route.isNull \/ Len(route.pts) < 2

\* seaRoutes.js:94-115.  route is [isNull, pts]: null, or an array of waypoints.
splitRouteByPosition(route, currentLat, currentLng) ==
    IF TooShort(route)
    THEN [completed |-> <<>>, remaining |-> IF route.isNull THEN <<>> ELSE route.pts]
    ELSE LET k == closestIndex(route.pts, currentLat, currentLng)
             current == CurrentPosition(currentLat, currentLng)
         IN  [completed |-> Append(Slice(route.pts, 0, k + 1), current),
              remaining |-> <<current>> \o RemainingAfter(route.pts, k)]

\* Routes over the grid, shaped as calculateRoute shapes them (origin first,
\* destination last, numbered waypoints between); a route may pass the same
\* point more than once.
GridPoints == Deg \X Deg

RouteOver(ps) ==
    [i \in 1..Len(ps) |->
        RouteElement(<<ps[i][2], ps[i][1]>>, i - 1, Len(ps), "Kolkata", "Norfolk")]

PointLists(n) == [1..n -> GridPoints]

\* null, the empty route, and every route of 1..MaxRoute grid points
Routes ==
    {[isNull |-> TRUE, pts |-> <<>>]}
    \cup {[isNull |-> FALSE, pts |-> RouteOver(ps)] : ps \in UNION {PointLists(n) : n \in 0..MaxRoute}}

SplitCalls ==
    [route : Routes, currentLat : Deg, currentLng : Deg]

InitSplit ==
    /\ pc = "ready"
    /\ now = FirstStart
    /\ congestionCache = EmptyCache
    /\ call \in SplitCalls
    /\ rets = <<>>

SplitRouteByPosition ==
    /\ pc = "ready"
    /\ rets' = <<splitRouteByPosition(call.route, call.currentLat, call.currentLng)>>
    /\ pc' = "splitRouteByPosition"
    /\ UNCHANGED <<now, congestionCache, call>>

NextSplit == SplitRouteByPosition

SpecSplit == InitSplit /\ [][NextSplit]_vars

\* The route handed to the splitter is a route of at least 2 points
SplitOfProperRoute ==
    pc = "splitRouteByPosition" /\ ~call.route.isNull /\ Len(call.route.pts) >= 2

\* C3: for a route of N >= 2 points, completed without its last element
\* followed by remaining without its first element is the original route,
\* element for element; the last element of completed and the first element
\* of remaining are the current-position marker; |completed| + |remaining| = N + 2.
C3_SplitCompleteness ==
    SplitOfProperRoute =>
        LET completed == rets[1].completed
            remaining == rets[1].remaining
            marker    == [lat |-> call.currentLat, lng |-> call.currentLng,
                          name |-> <<"Current Position">>, type |-> "current"]
        IN  /\ Len(completed) >= 1 /\ Len(remaining) >= 1
            /\ SubSeq(completed, 1, Len(completed) - 1) \o Tail(remaining) = call.route.pts
            /\ completed[Len(completed)] = marker
            /\ remaining[1] = marker
            /\ Len(completed) + Len(remaining) = Len(call.route.pts) + 2

\* A 3-point route was split at its middle point: both parts keep route points.
C3_Witness ==
    /\ SplitOfProperRoute
    /\ Len(call.route.pts) = 3
    /\ Len(rets[1].completed) = 3
    /\ Len(rets[1].remaining) = 2

\* Distance from the current position to the route point of 0-based index i
DistToPoint(i) ==
    haversineDistance(call.currentLat, call.currentLng,
                      call.route.pts[i + 1].lat, call.route.pts[i + 1].lng)

\* C4: the split index k is the smallest index whose point has the minimum
\* distance to the current position (earliest index wins a tie; a position
\* on point k and on no earlier point gives k), and |completed| = k + 2,
\* |remaining| = N - k.
C4_EarliestClosest ==
    SplitOfProperRoute =>
        LET N == Len(call.route.pts)
            k == Len(rets[1].completed) - 2
        IN  /\ k \in 0..(N - 1)
            /\ \A j \in 0..(N - 1) : DistToPoint(k) <= DistToPoint(j)
            /\ \A j \in 0..(k - 1) : DistToPoint(j) > DistToPoint(k)
            /\ Len(rets[1].remaining) = N - k

\* Two points are equally close to the current position, none is closer, and
\* the earlier one is not the first point of the route.
C4_Witness ==
    /\ SplitOfProperRoute
    /\ Len(call.route.pts) = 3
    /\ DistToPoint(1) = DistToPoint(2)
    /\ DistToPoint(0) > DistToPoint(1)
    /\ call.route.pts[2] # call.route.pts[3]
    /\ Len(rets[1].completed) = 3

\* C21: for a route that is null, empty or has exactly one point,
\* splitRouteByPosition returns completed = [] and remaining = the input
\* route unchanged (the empty list for null); no current-position marker is
\* inserted.
C21_ShortRouteUnchanged ==
    (pc = "splitRouteByPosition" /\ (call.route.isNull \/ Len(call.route.pts) < 2)) =>
        /\ rets[1].completed = <<>>
        /\ rets[1].remaining = (IF call.route.isNull THEN <<>> ELSE call.route.pts)
        /\ \A i \in 1..Len(rets[1].remaining) : rets[1].remaining[i].type # "current"

\* A route of exactly one point was split and came back as the remaining part.
C21_Witness ==
    /\ pc = "splitRouteByPosition"
    /\ ~call.route.isNull /\ Len(call.route.pts) = 1
    /\ Len(rets[1].remaining) = 1

-----------------------------------------------------------------------------
(* Congestion zones: bottlenecks.js *)

\* bottlenecks.js:410-423 haversineDistance: the same formula in metres
zoneHaversineDistance(lat1, lon1, lat2, lon2) ==
    HaversineTable[<<Abs(lat2 - lat1), Abs(lon2 - lon1), Min(lat1, lat2)>>]

\* new Date().getUTCHours() and getUTCDay() (0 = Sunday; the epoch was a Thursday)
UTCHours(t) == (t \div 60) % 24

UTCDay(t) == ((t \div 1440) + 4) % 7

\* Math.round(n / d) for integers n >= 0, d > 0 (halves round up)
RoundDiv(n, d) == (2 * n + d) \div (2 * d)

\* bottlenecks.js:218-249 getTimeBasedCongestion, in hundredths.  The sums of
\* 0.5, 0.2, 0.15, 0.25, 0.1 in doubles fall on the same side of 0.5 and 0.75
\* as these integers, and Math.round(activityLevel * 100) gives these integers.
getTimeBasedCongestion(zone, t) ==
    LET hour == UTCHours(t)
        dayOfWeek == UTCDay(t)
        peak == IF (hour >= 6 /\ hour <= 10) \/ (hour >= 14 /\ hour <= 18) THEN 20 ELSE 0
        weekend == IF dayOfWeek = 0 \/ dayOfWeek = 6 THEN 15 ELSE 0
        byZone == IF zone.id = "suez" \/ zone.id = "bab-el-mandeb" THEN 25
                  ELSE IF zone.id = "panama" THEN 20
                  ELSE IF zone.id = "singapore" \/ zone.id = "shanghai" THEN 10
                  ELSE 0
        activityLevel == 50 + peak - weekend + byZone
    IN  IF activityLevel > 100 THEN 100 ELSE IF activityLevel < 0 THEN 0 ELSE activityLevel

\* What congestionCache.get(key)?.data is when the key is absent
NoWeather ==
    [isUndefined |-> TRUE, error |-> FALSE,
     windSpeed |-> [isNull |-> TRUE, v |-> 0], waveHeight |-> [isNull |-> TRUE, v |-> 0]]

\* A weather value as fetchWeatherForZone stores it (bottlenecks.js:267-273);
\* wind in m/s, waves in m
Weather(wind, wave) ==
    [isUndefined |-> FALSE, error |-> FALSE,
     windSpeed |-> [isNull |-> FALSE, v |-> wind], waveHeight |-> [isNull |-> FALSE, v |-> wave]]

\* bottlenecks.js:296-303  severity and delay from the activity level
TimeSeverity(zone, activityLevel) ==
    IF activityLevel >= 75
    THEN [severity |-> "high", estimatedDelay |-> zone.baseDelay + RoundDiv(zone.baseDelay, 2),
          warnings |-> <<"High traffic period">>]
    ELSE IF activityLevel >= 50
    THEN [severity |-> "medium", estimatedDelay |-> zone.baseDelay + RoundDiv(zone.baseDelay, 4),
          warnings |-> <<>>]
    ELSE [severity |-> "low", estimatedDelay |-> zone.baseDelay, warnings |-> <<>>]

\* mutant of WindImpact: strong winds set the severity to medium whatever it was
WindImpact_setsMedium(s, weather) ==
    IF ~weather.windSpeed.isNull /\ weather.windSpeed.v >= 12
    THEN IF weather.windSpeed.v >= 20
         THEN [severity |-> "high", estimatedDelay |-> s.estimatedDelay + 90,
               warnings |-> Append(s.warnings, "Storm winds")]
         ELSE IF weather.windSpeed.v >= 15
         THEN [severity |-> "medium",
               estimatedDelay |-> s.estimatedDelay + 45,
               warnings |-> Append(s.warnings, "Strong winds")]
         ELSE [severity |-> s.severity, estimatedDelay |-> s.estimatedDelay + 15,
               warnings |-> Append(s.warnings, "Moderate winds")]
    ELSE s

\* bottlenecks.js:308-324  wind
WindImpact(s, weather) ==
    IF ~weather.windSpeed.isNull /\ weather.windSpeed.v >= 12
    THEN IF weather.windSpeed.v >= 20
         THEN [severity |-> "high", estimatedDelay |-> s.estimatedDelay + 90,
               warnings |-> Append(s.warnings, "Storm winds")]
         ELSE IF weather.windSpeed.v >= 15
         THEN [severity |-> IF s.severity = "low" THEN "medium" ELSE s.severity,
               estimatedDelay |-> s.estimatedDelay + 45,
               warnings |-> Append(s.warnings, "Strong winds")]
         ELSE [severity |-> s.severity, estimatedDelay |-> s.estimatedDelay + 15,
               warnings |-> Append(s.warnings, "Moderate winds")]
    ELSE s

\* mutant of WaveImpact: the lowest band of wave heights lifts 'low' to
\* 'medium' like the band above it
WaveImpact_lowBandEscalates(s, weather) ==
    IF ~weather.waveHeight.isNull /\ weather.waveHeight.v >= 2
    THEN IF weather.waveHeight.v >= 4
         THEN [severity |-> "high", estimatedDelay |-> s.estimatedDelay + 60,
               warnings |-> Append(s.warnings, "High seas")]
         ELSE IF weather.waveHeight.v >= 3
         THEN [severity |-> IF s.severity = "low" THEN "medium" ELSE s.severity,
               estimatedDelay |-> s.estimatedDelay + 30,
               warnings |-> Append(s.warnings, "Rough seas")]
         ELSE [severity |-> IF s.severity = "low" THEN "medium" ELSE s.severity,
               estimatedDelay |-> s.estimatedDelay + 10,
               warnings |-> s.warnings]
    ELSE s

\* bottlenecks.js:327-339  waves
WaveImpact(s, weather) ==
    IF ~weather.waveHeight.isNull /\ weather.waveHeight.v >= 2
    THEN IF weather.waveHeight.v >= 4
         THEN [severity |-> "high", estimatedDelay |-> s.estimatedDelay + 60,
               warnings |-> Append(s.warnings, "High seas")]
         ELSE IF weather.waveHeight.v >= 3
         THEN [severity |-> IF s.severity = "low" THEN "medium" ELSE s.severity,
               estimatedDelay |-> s.estimatedDelay + 30,
               warnings |-> Append(s.warnings, "Rough seas")]
         ELSE [severity |-> s.severity, estimatedDelay |-> s.estimatedDelay + 10,
               warnings |-> s.warnings]
    ELSE s

\* bottlenecks.js:343-346
Trend(t) ==
    IF UTCHours(t) >= 4 /\ UTCHours(t) <= 8 THEN "increasing"
    ELSE IF UTCHours(t) >= 18 /\ UTCHours(t) <= 22 THEN "decreasing"
    ELSE "stable"

\* bottlenecks.js:287-355, evaluated at time t.  A warning is kept by its
\* label (the number printed after it is left out).
calculateDynamicSeverity(zone, weather, t) ==
    LET activityLevel == getTimeBasedCongestion(zone, t)
        byTime == TimeSeverity(zone, activityLevel)
        s == IF ~weather.isUndefined /\ ~weather.error
             THEN WaveImpact(WindImpact(byTime, weather), weather)
             ELSE byTime
    IN  [severity |-> s.severity, estimatedDelay |-> s.estimatedDelay, trend |-> Trend(t),
         activityLevel |-> activityLevel, warnings |-> s.warnings]

\* bottlenecks.js:498-499  congestionCache.get(`weather_${zone.id}`)?.data
CachedWeather(cache, zone) ==
    IF zone.id \in DOMAIN cache THEN cache[zone.id].data ELSE NoWeather

DefaultRadius == 50000

\* bottlenecks.js:485  zone.radius || 50000
ZoneRadius(zone) == IF zone.radius = 0 THEN DefaultRadius ELSE zone.radius

\* bottlenecks.js:478  `if (!waypoint.lat || !waypoint.lng) continue`: the
\* number 0 is falsy
SkipsWaypoint(waypoint) == waypoint.lat = 0 \/ waypoint.lng = 0

\* mutant of AlreadyPassed: the set of passed zones is not consulted
AlreadyPassed_never(passedZones, zone) == FALSE

\* bottlenecks.js:482  passedZones.has(zone.id)
AlreadyPassed(passedZones, zone) == zone.id \in passedZones

\* mutant of HasPrecalculated: the severity is always recomputed
HasPrecalculated_never(zone) == FALSE

\* bottlenecks.js:493  zone.estimatedDelay !== undefined && zone.severity
HasPrecalculated(zone) == zone.hasEstimatedDelay /\ zone.severity # ""

\* bottlenecks.js:491-512  what a zone that is hit adds to the result
DelayEntry(zone, cache, t) ==
    LET dynamicData == calculateDynamicSeverity(zone, CachedWeather(cache, zone), t)
    IN  [zoneId |-> zone.id, zone |-> zone.name,
         delay |-> IF HasPrecalculated(zone) THEN zone.estimatedDelay ELSE dynamicData.estimatedDelay,
         severity |-> IF HasPrecalculated(zone) THEN zone.severity ELSE dynamicData.severity,
         description |-> zone.description]

\* bottlenecks.js:480-514  the inner loop: the zones of 1-based index >= j
\* tested against one waypoint
RECURSIVE ZoneLoop(_, _, _, _, _, _)
ZoneLoop(waypoint, bottlenecks, j, acc, cache, t) ==
    IF j > Len(bottlenecks) THEN acc
    ELSE LET zone == bottlenecks[j]
             dist == zoneHaversineDistance(waypoint.lat, waypoint.lng, zone.lat, zone.lng)
             hit  == ~AlreadyPassed(acc.passedZones, zone) /\ dist <= ZoneRadius(zone)
             entry == DelayEntry(zone, cache, t)
         IN  ZoneLoop(waypoint, bottlenecks, j + 1,
                      IF hit
                      THEN [passedZones |-> acc.passedZones \cup {zone.id},
                            totalDelayMinutes |-> acc.totalDelayMinutes + entry.delay,
                            delays |-> Append(acc.delays, entry)]
                      ELSE acc,
                      cache, t)

\* bottlenecks.js:477-515  the outer loop: the waypoints of 1-based index >= i
RECURSIVE WaypointLoop(_, _, _, _, _, _)
WaypointLoop(route, bottlenecks, i, acc, cache, t) ==
    IF i > Len(route) THEN acc
    ELSE WaypointLoop(route, bottlenecks, i + 1,
                      IF SkipsWaypoint(route[i]) THEN acc
                      ELSE ZoneLoop(route[i], bottlenecks, 1, acc, cache, t),
                      cache, t)

\* bottlenecks.js:468-518.  route and bottlenecks are [isNull, ...] wrappers;
\* cache and t are the congestionCache and the clock the call reads.
calculateRouteBottleneckDelay(route, bottlenecks, cache, t) ==
    IF route.isNull \/ Len(route.pts) = 0 \/ bottlenecks.isNull \/ Len(bottlenecks.zones) = 0
    THEN [totalDelayMinutes |-> 0, delays |-> <<>>]
    ELSE LET acc == WaypointLoop(route.pts, bottlenecks.zones, 1,
                                 [passedZones |-> {}, totalDelayMinutes |-> 0, delays |-> <<>>],
                                 cache, t)
         IN  [totalDelayMinutes |-> acc.totalDelayMinutes, delays |-> acc.delays]

-----------------------------------------------------------------------------
(* Delay attribution: calls of calculateRouteBottleneckDelay *)

\* Zone lists handed to the attribution.  Ids, names and base delays are
\* those of the catalogue (bottlenecks.js:30-57); the centres are placed on
\* the grid.  A zone comes either as getBottlenecks returns it (severity and
\* estimatedDelay filled in, bottlenecks.js:367-377) or as the bare catalogue
\* entry; radius 0 stands for a zone without a radius.
Zone(id, name, lat, lng, radius, baseDelay, hasEstimatedDelay, estimatedDelay, severity) ==
    [id |-> id, name |-> name, description |-> "chokepoint", lat |-> lat, lng |-> lng,
     radius |-> radius, baseDelay |-> baseDelay, hasEstimatedDelay |-> hasEstimatedDelay,
     estimatedDelay |-> estimatedDelay, severity |-> severity]

SuezZones ==
    { Zone("suez", "Suez Canal", 1, 1, r, 30, res, IF res THEN 180 ELSE 0, IF res THEN "high" ELSE "")
        : r \in {0, 111195}, res \in BOOLEAN }

PanamaZones ==
    { Zone("panama", "Panama Canal", 0, 1, 100000, 60, TRUE, 45, "medium"),
      Zone("panama", "Panama Canal", 2, 1, 100000, 60, FALSE, 0, "") }

ZoneLists ==
    {<<>>} \cup {<<z>> : z \in SuezZones \cup PanamaZones}
    \cup {<<a, b>> : a \in SuezZones, b \in PanamaZones}
    \cup {<<b, a>> : a \in SuezZones, b \in PanamaZones}

\* Points of the routes handed to the attribution and the estimator: one
\* meridian of the grid, from the equator (latitude 0) northwards
LinePoints == {<<0, 1>>, <<1, 1>>, <<2, 1>>}

LineRoutes ==
    {[isNull |-> TRUE, pts |-> <<>>]}
    \cup {[isNull |-> FALSE, pts |-> RouteOver(ps)]
            : ps \in UNION {[1..n -> LinePoints] : n \in 0..MaxRoute}}

\* States of the weather cache: empty, or holding what fetchWeatherForZone
\* stored for a zone ten minutes before the first start time
CacheEntry(weather) == [data |-> weather, timestamp |-> FirstStart - 10]

Caches ==
    { EmptyCache,
      [z \in {"panama"} |-> CacheEntry(Weather(22, 4))],
      [z \in {"suez", "panama"} |-> CacheEntry(Weather(13, 2))] }

DelayCalls ==
    [route : LineRoutes, bottlenecks : {[isNull |-> FALSE, zones |-> zs] : zs \in ZoneLists}]

InitDelay ==
    /\ pc = "ready"
    /\ now \in StartTimes
    /\ congestionCache \in Caches
    /\ call \in DelayCalls
    /\ rets = <<>>

\* A caller runs calculateRouteBottleneckDelay, at most twice with the same arguments.
CalculateRouteBottleneckDelay ==
    /\ Len(rets) < 2
    /\ rets' = Append(rets, calculateRouteBottleneckDelay(call.route, call.bottlenecks,
                                                          congestionCache, now))
    /\ pc' = "calculateRouteBottleneckDelay"
    /\ UNCHANGED <<now, congestionCache, call>>

\* A minute passes between the two calls.
Tick ==
    /\ Len(rets) = 1
    /\ \E t \in StartTimes : now - t \in 0..(MaxTicks - 1)
    /\ now' = now + 1
    /\ UNCHANGED <<pc, congestionCache, call, rets>>

NextDelay == CalculateRouteBottleneckDelay \/ Tick

SpecDelay == InitDelay /\ [][NextDelay]_vars

ZoneIds(delays) == {delays[i].zoneId : i \in 1..Len(delays)}

\* C5: no zone id appears more than once in delays, also when the route
\* leaves a zone and re-enters it or has several points inside it.
C5_NoZoneTwice ==
    \A c \in 1..Len(rets) :
        \A i, j \in 1..Len(rets[c].delays) :
            rets[c].delays[i].zoneId = rets[c].delays[j].zoneId => i = j

\* The route enters a zone, leaves its radius and re-enters it, and the zone
\* has been attributed.
C5_Witness ==
    /\ Len(rets) >= 1
    /\ Len(call.route.pts) = 3
    /\ \E z \in 1..Len(call.bottlenecks.zones) :
        LET zone == call.bottlenecks.zones[z]
            d(i) == zoneHaversineDistance(call.route.pts[i].lat, call.route.pts[i].lng,
                                          zone.lat, zone.lng)
        IN  /\ zone.radius = 0
            /\ d(1) <= DefaultRadius /\ d(2) > DefaultRadius /\ d(3) <= DefaultRadius
            /\ zone.id \in ZoneIds(rets[1].delays)

\* Some point of the route handed over lies within the zone's own radius
RouteHits(zone) ==
    \E i \in 1..Len(call.route.pts) :
        zoneHaversineDistance(call.route.pts[i].lat, call.route.pts[i].lng, zone.lat, zone.lng)
            <= zone.radius

\* C6: every zone of the supplied list that has a route point within its
\* radius (boundary included) appears in delays, whatever the coordinates of
\* that point (latitude 0 and longitude 0 included).
C6_EveryHitZoneRecorded ==
    \A c \in 1..Len(rets) :
        \A z \in 1..Len(call.bottlenecks.zones) :
            RouteHits(call.bottlenecks.zones[z])
                => call.bottlenecks.zones[z].id \in ZoneIds(rets[c].delays)

\* Every zone of the list carries a pre-calculated estimatedDelay and severity
ZonesResolved ==
    \A z \in 1..Len(call.bottlenecks.zones) :
        /\ call.bottlenecks.zones[z].hasEstimatedDelay
        /\ call.bottlenecks.zones[z].severity # ""

\* C7 as stated: two calls with the same route and the same zones return the
\* same totalDelayMinutes and the same delays, for any zone list.
C7_IdempotentForAnyZones ==
    Len(rets) = 2 => rets[1] = rets[2]

\* C7 as amended: two calls with the same route and the same zones return the
\* same totalDelayMinutes and the same delays when every zone of the list
\* carries its estimatedDelay and severity, however much time passes between
\* the calls.
C7_IdempotentForResolvedZones ==
    (Len(rets) = 2 /\ ZonesResolved) => rets[1] = rets[2]

\* Two calls were made on a list of pre-calculated zones, the clock entered
\* the 06:00 peak window between them, and a zone was attributed.
C7_Witness ==
    /\ Len(rets) = 2
    /\ ZonesResolved
    /\ UTCHours(now) = 6
    /\ Len(rets[2].delays) >= 1

\* Route indices of the points that lie within the radius of a zone
PointsInside(zone) ==
    { i \in 1..Len(call.route.pts) :
        zoneHaversineDistance(call.route.pts[i].lat, call.route.pts[i].lng, zone.lat, zone.lng)
            <= ZoneRadius(zone) }

FirstInside(zone) == CHOOSE i \in PointsInside(zone) : \A k \in PointsInside(zone) : i <= k

\* Position of a zone in a delays list (0 when it is not there)
DelayIndex(delays, zone) ==
    IF zone.id \in ZoneIds(delays)
    THEN CHOOSE i \in 1..Len(delays) : delays[i].zoneId = zone.id
    ELSE 0

\* C22: delays is ordered by route traversal: zone A precedes zone B in
\* delays whenever the first route point inside A comes strictly earlier in
\* the route than the first route point inside B, whatever their order in
\* the zone list; the list order decides only between zones first hit at the
\* same route point.
C22_DelaysInTraversalOrder ==
    \A c \in 1..Len(rets) :
        \A a, b \in 1..Len(call.bottlenecks.zones) :
            LET A == call.bottlenecks.zones[a]
                B == call.bottlenecks.zones[b]
            IN  (a # b /\ PointsInside(A) # {} /\ PointsInside(B) # {}
                 /\ (\/ FirstInside(A) < FirstInside(B)
                     \/ (FirstInside(A) = FirstInside(B) /\ a < b))) =>
                    /\ DelayIndex(rets[c].delays, A) > 0
                    /\ DelayIndex(rets[c].delays, A) < DelayIndex(rets[c].delays, B)

-----------------------------------------------------------------------------
(* ETA estimator: unnamed/part_000 estimateArrival *)
(*                                                                         *)
(* Fixed point: a speed is in 1e-4 knots, a distance in 1e-2 nautical miles *)
(* (rounded down), a duration and the eta in minutes (rounded down).        *)

SpeedUnit == 10000

\* part_000:10-21 VESSEL_TYPE_SPEEDS, in table order
VESSEL_TYPE_SPEEDS ==
    << [key |-> "container", speed |-> 18], [key |-> "cargo", speed |-> 14],
       [key |-> "bulk", speed |-> 13], [key |-> "tanker", speed |-> 13],
       [key |-> "lng", speed |-> 17], [key |-> "ro-ro", speed |-> 16],
       [key |-> "passenger", speed |-> 20], [key |-> "fishing", speed |-> 10],
       [key |-> "tug", speed |-> 12], [key |-> "default", speed |-> 12] >>

DefaultSpeed == VESSEL_TYPE_SPEEDS[Len(VESSEL_TYPE_SPEEDS)].speed

\* The vessel type strings of the model, and for each the table keys that
\* vesselType.toLowerCase().includes(key) finds in it
VesselTypeKeys ==
    ( "Container Tanker" :> {"container", "tanker"}
   @@ "LNG Tanker"       :> {"tanker", "lng"}
   @@ "Bulk Carrier"     :> {"bulk"}
   @@ "Tugboat"          :> {"tug"}
   @@ "Yacht"            :> {}
   @@ ""                 :> {} )

\* part_000:27-29  the first table entry, from 1-based index i on, whose key
\* the type includes
RECURSIVE FirstMatchingSpeed(_, _)
FirstMatchingSpeed(text, i) ==
    IF i > Len(VESSEL_TYPE_SPEEDS) THEN DefaultSpeed
    ELSE IF VESSEL_TYPE_SPEEDS[i].key \in VesselTypeKeys[text] THEN VESSEL_TYPE_SPEEDS[i].speed
    ELSE FirstMatchingSpeed(text, i + 1)

\* the last table entry, from 1-based index i down, whose key the type includes
RECURSIVE LastMatchingSpeed(_, _)
LastMatchingSpeed(text, i) ==
    IF i < 1 THEN DefaultSpeed
    ELSE IF VESSEL_TYPE_SPEEDS[i].key \in VesselTypeKeys[text] THEN VESSEL_TYPE_SPEEDS[i].speed
    ELSE LastMatchingSpeed(text, i - 1)

\* mutant of getVesselTypeSpeed: the loop does not return at the first match,
\* so the last matching key decides
getVesselTypeSpeed_lastMatch(vesselType) ==
    IF vesselType.isUndefined \/ vesselType.text = "" THEN DefaultSpeed
    ELSE LastMatchingSpeed(vesselType.text, Len(VESSEL_TYPE_SPEEDS))

\* part_000:24-31.  vesselType is [isUndefined, text]; the empty string is falsy.
getVesselTypeSpeed(vesselType) ==
    IF vesselType.isUndefined \/ vesselType.text = "" THEN DefaultSpeed
    ELSE FirstMatchingSpeed(vesselType.text, 1)

\* part_000:39-41  the wind term of the factor, in 1e-4:
\* 0.05 * Math.min((wind - 15) / 10, 0.3), wind in whole m/s
WindReduction(weather) ==
    IF weather.wind_speed_10m >= 15
    THEN (IF weather.wind_speed_10m - 15 < 3 THEN 50 * (weather.wind_speed_10m - 15) ELSE 150)
    ELSE 0

\* part_000:44-46  the wave term of the factor, in 1e-4:
\* 0.03 * Math.min((wave - 2) / 2, 0.2), wave height in decimetres
WaveReduction(weather) ==
    IF weather.wave_height >= 20
    THEN (IF weather.wave_height - 20 < 4 THEN 15 * (weather.wave_height - 20) ELSE 60)
    ELSE 0

\* mutant of adjustSpeedForWeather: the excess wind and wave are taken as the
\* reduction itself, without the Math.min caps and without the Math.max floor
adjustSpeedForWeather_uncapped(baseSpeed, weather) ==
    IF weather.isUndefined THEN baseSpeed
    ELSE LET wind == IF weather.wind_speed_10m >= 15
                     THEN 1000 * (weather.wind_speed_10m - 15) ELSE 0
             wave == IF weather.wave_height >= 20
                     THEN 500 * (weather.wave_height - 20) ELSE 0
         IN  (baseSpeed * (SpeedUnit - wind - wave)) \div SpeedUnit

\* part_000:34-49.  weather is [isUndefined, wind_speed_10m, wave_height]
\* (a missing field is 0, which is falsy as well); baseSpeed in 1e-4 knots.
adjustSpeedForWeather(baseSpeed, weather) ==
    IF weather.isUndefined THEN baseSpeed
    ELSE LET factor == SpeedUnit - WindReduction(weather) - WaveReduction(weather)
             reduced == (baseSpeed * factor) \div SpeedUnit
             floor == baseSpeed \div 2
         IN  IF reduced >= floor THEN reduced ELSE floor

\* part_000:160-166  the length of the route in metres (1e-3 km), before the
\* conversion to nautical miles
RECURSIVE RouteMetres(_, _)
RouteMetres(route, i) ==
    IF i > Len(route) - 1 THEN 0
    ELSE haversineDistance(route[i].lat, route[i].lng, route[i + 1].lat, route[i + 1].lng)
         + RouteMetres(route, i + 1)

\* part_000:165  totalKm * 0.539957, in 1e-2 nautical miles:
\* floor(metres * 539957 / 1e7), computed without leaving 32 bits
calculateRouteDistance(route) ==
    LET metres == RouteMetres(route, 1)
        a == (metres \div 1000) * 539957
        b == ((metres % 1000) * 539957) \div 1000
    IN  (a + b) \div 10000

\* mutant of SpeedGiven: only a zero or missing speed is replaced
SpeedGiven_nonzero(speedKnots) == ~speedKnots.isUndefined /\ speedKnots.knots # 0

\* part_000:174  the negation of `!effectiveSpeed || effectiveSpeed <= 0`.
\* speedKnots is [isUndefined, knots].
SpeedGiven(speedKnots) == ~speedKnots.isUndefined /\ speedKnots.knots > 0

\* mutant of BaseSpeed: a vessel type, when given, is looked up first
BaseSpeed_typeFirst(speedKnots, options) ==
    IF ~options.vesselType.isUndefined /\ options.vesselType.text # ""
    THEN getVesselTypeSpeed(options.vesselType) * SpeedUnit
    ELSE IF SpeedGiven(speedKnots) THEN speedKnots.knots * SpeedUnit
    ELSE DefaultSpeed * SpeedUnit

\* part_000:173-178  the speed before the weather adjustment, in 1e-4 knots
BaseSpeed(speedKnots, options) ==
    IF SpeedGiven(speedKnots) THEN speedKnots.knots * SpeedUnit
    ELSE IF ~options.vesselType.isUndefined /\ options.vesselType.text # ""
    THEN getVesselTypeSpeed(options.vesselType) * SpeedUnit
    ELSE DefaultSpeed * SpeedUnit

\* part_000:172-183  the speed the travel time is computed with, in 1e-4 knots
EffectiveSpeed(speedKnots, options) ==
    LET base == BaseSpeed(speedKnots, options)
    IN  IF ~options.weather.isUndefined THEN adjustSpeedForWeather(base, options.weather) ELSE base

\* part_000:186  remainingDistance / effectiveSpeed, in minutes (towards zero,
\* as the Date constructor truncates)
TravelMinutes(remainingDistance, effectiveSpeed) ==
    IF effectiveSpeed > 0
    THEN (remainingDistance * 6000) \div effectiveSpeed
    ELSE -((remainingDistance * 6000) \div (-effectiveSpeed))

\* part_000:192  options.bottlenecks && options.bottlenecks.length > 0
HasCatalog(options) ==
    ~options.bottlenecks.isNull /\ Len(options.bottlenecks.zones) > 0

\* mutant of AddDelay: the delay minutes are not added to the travel time
AddDelay_forgotten(travelMinutes, bottleneckDelayMinutes) == travelMinutes

\* part_000:198  hoursRemaining += bottleneckDelayMinutes / 60, in minutes
AddDelay(travelMinutes, bottleneckDelayMinutes) == travelMinutes + bottleneckDelayMinutes

\* part_000:168-211.  cache and t are the congestionCache and the clock the
\* call reads.  eta is the minute of new Date(Date.now() + hoursRemaining * 3600000).
estimateArrival(route, currentLat, currentLng, speedKnots, options, cache, t) ==
    LET remaining == splitRouteByPosition(route, currentLat, currentLng).remaining
        remainingDistance == calculateRouteDistance(remaining)
        effectiveSpeed == EffectiveSpeed(speedKnots, options)
        travel == TravelMinutes(remainingDistance, effectiveSpeed)
        delayResult == IF HasCatalog(options)
                       THEN calculateRouteBottleneckDelay([isNull |-> FALSE, pts |-> remaining],
                                                          options.bottlenecks, cache, t)
                       ELSE [totalDelayMinutes |-> 0, delays |-> <<>>]
        minutesRemaining == IF HasCatalog(options)
                            THEN AddDelay(travel, delayResult.totalDelayMinutes)
                            ELSE travel
    IN  [eta |-> t + minutesRemaining,
         distanceRemaining |-> RoundDiv(remainingDistance, 100),
         hoursRemaining |-> RoundDiv(minutesRemaining, 60),
         effectiveSpeed |-> RoundDiv(effectiveSpeed, 1000),
         bottleneckDelayMinutes |-> delayResult.totalDelayMinutes,
         bottlenecksPassed |-> delayResult.delays]

\* Arguments of estimateArrival
SpeedInputs ==
    {[isUndefined |-> TRUE, knots |-> 0]} \cup {[isUndefined |-> FALSE, knots |-> k] : k \in {0, 14}}

VesselTypeInputs ==
    {[isUndefined |-> TRUE, text |-> ""], [isUndefined |-> FALSE, text |-> "Container Tanker"]}

WeatherInputs ==
    {[isUndefined |-> TRUE, wind_speed_10m |-> 0, wave_height |-> 0],
     [isUndefined |-> FALSE, wind_speed_10m |-> 25, wave_height |-> 50]}

CatalogInputs ==
    { [isNull |-> TRUE, zones |-> <<>>],
      [isNull |-> FALSE, zones |-> <<>>],
      [isNull |-> FALSE, zones |-> <<Zone("suez", "Suez Canal", 1, 1, 120000, 30, TRUE, 180, "high")>>],
      [isNull |-> FALSE, zones |-> <<Zone("panama", "Panama Canal", 0, 1, 100000, 60, TRUE, 45, "medium")>>],
      [isNull |-> FALSE, zones |-> <<Zone("suez", "Suez Canal", 1, 1, 0, 30, FALSE, 0, "")>>],
      [isNull |-> FALSE, zones |-> <<Zone("panama", "Panama Canal", 2, 1, 100000, 60, FALSE, 0, ""),
                                     Zone("suez", "Suez Canal", 1, 1, 0, 30, TRUE, 180, "high")>>] }

EtaCalls ==
    [route : LineRoutes,
     currentLat : {p[1] : p \in LinePoints}, currentLng : {p[2] : p \in LinePoints},
     speedKnots : SpeedInputs,
     options : [vesselType : VesselTypeInputs, weather : WeatherInputs, bottlenecks : CatalogInputs]]

InitEta ==
    /\ pc = "ready"
    /\ now = FirstStart
    /\ congestionCache \in Caches
    /\ call \in EtaCalls
    /\ rets = <<>>

\* A caller runs estimateArrival on a position update.
EstimateArrival ==
    /\ pc = "ready"
    /\ rets' = <<estimateArrival(call.route, call.currentLat, call.currentLng, call.speedKnots,
                                 call.options, congestionCache, now)>>
    /\ pc' = "estimateArrival"
    /\ UNCHANGED <<now, congestionCache, call>>

NextEta == EstimateArrival

SpecEta == InitEta /\ [][NextEta]_vars

\* The remaining route of the call: what the split leaves ahead of the vessel
EtaRemaining ==
    splitRouteByPosition(call.route, call.currentLat, call.currentLng).remaining

\* Ids of the catalogue zones that contain a point of the remaining route
EtaZonesHit ==
    { call.options.bottlenecks.zones[z].id : z \in
        { y \in 1..Len(call.options.bottlenecks.zones) :
            \E i \in 1..Len(EtaRemaining) :
                zoneHaversineDistance(EtaRemaining[i].lat, EtaRemaining[i].lng,
                                      call.options.bottlenecks.zones[y].lat,
                                      call.options.bottlenecks.zones[y].lng)
                    <= ZoneRadius(call.options.bottlenecks.zones[y]) } }

RECURSIVE SumOfDelays(_, _)
SumOfDelays(delays, i) ==
    IF i > Len(delays) THEN 0 ELSE delays[i].delay + SumOfDelays(delays, i + 1)

\* C8: with a zone catalogue, bottleneckDelayMinutes is the sum of the delay
\* fields of bottlenecksPassed, and bottlenecksPassed has one entry per zone
\* hit by the remaining route (so one zone of delay 180 containing a point of
\* the remaining route gives 180 and exactly one entry).
C8_DelayOfEveryZoneHit ==
    (pc = "estimateArrival" /\ HasCatalog(call.options)) =>
        /\ rets[1].bottleneckDelayMinutes = SumOfDelays(rets[1].bottlenecksPassed, 1)
        /\ ZoneIds(rets[1].bottlenecksPassed) = EtaZonesHit
        /\ Len(rets[1].bottlenecksPassed) = Cardinality(EtaZonesHit)

\* C9: the travel time is remainingDistance / effectiveSpeed, plus the delay
\* minutes exactly when a non-empty catalogue is supplied; eta is the time of
\* the call plus that time, never earlier than the call; without a catalogue
\* bottleneckDelayMinutes is 0 and bottlenecksPassed is empty.
C9_EtaIsNowPlusTravelPlusDelay ==
    pc = "estimateArrival" =>
        LET travel == (calculateRouteDistance(EtaRemaining) * 6000)
                        \div EffectiveSpeed(call.speedKnots, call.options)
        IN  /\ rets[1].eta - now =
                 travel + (IF HasCatalog(call.options) THEN rets[1].bottleneckDelayMinutes ELSE 0)
            /\ rets[1].eta >= now
            /\ ~HasCatalog(call.options) =>
                 (rets[1].bottleneckDelayMinutes = 0 /\ rets[1].bottlenecksPassed = <<>>)

\* An estimate was made with a catalogue for a vessel that still has way to
\* go through a zone: distance, travel time and delay are all positive.
C9_Witness ==
    /\ pc = "estimateArrival"
    /\ HasCatalog(call.options)
    /\ rets[1].distanceRemaining > 0
    /\ rets[1].bottleneckDelayMinutes > 0
    /\ rets[1].eta > now + rets[1].bottleneckDelayMinutes

\* C10: whenever the remaining route has fewer than 2 points, estimateArrival
\* returns distanceRemaining = 0, bottleneckDelayMinutes = 0 and an eta equal
\* to the current time, also when a zone catalogue is supplied.
C10_DegenerateRouteIsNow ==
    (pc = "estimateArrival" /\ Len(EtaRemaining) < 2) =>
        /\ rets[1].distanceRemaining = 0
        /\ rets[1].bottleneckDelayMinutes = 0
        /\ rets[1].eta = now

-----------------------------------------------------------------------------
(* Speed resolution: estimateArrival over a wide range of speed inputs *)

\* seaRoutes.js:125-135  the estimateArrival of seaRoutes.js, which takes no
\* options: the speed is `speedKnots || 12`.
estimateArrivalWithoutOptions(route, currentLat, currentLng, speedKnots, t) ==
    LET remaining == splitRouteByPosition(route, currentLat, currentLng).remaining
        remainingDistance == calculateRouteDistance(remaining)
        speed == IF speedKnots.isUndefined \/ speedKnots.knots = 0
                 THEN 12 * SpeedUnit ELSE speedKnots.knots * SpeedUnit
        minutesRemaining == TravelMinutes(remainingDistance, speed)
    IN  [eta |-> t + minutesRemaining,
         distanceRemaining |-> RoundDiv(remainingDistance, 100),
         hoursRemaining |-> RoundDiv(minutesRemaining, 60)]

\* Speeds reported for the vessel: none, negative, zero, positive
KnotInputs ==
    {[isUndefined |-> TRUE, knots |-> 0]}
    \cup {[isUndefined |-> FALSE, knots |-> k] : k \in {-3, 0, 7, 14}}

\* Vessel types: none, the empty string, and every string of VesselTypeKeys
AllVesselTypes ==
    {[isUndefined |-> TRUE, text |-> ""]}
    \cup {[isUndefined |-> FALSE, text |-> x] : x \in DOMAIN VesselTypeKeys}

\* options.weather: none, fields missing (0), gale with rough sea, storm
SpeedWeathers ==
    {[isUndefined |-> TRUE, wind_speed_10m |-> 0, wave_height |-> 0],
     [isUndefined |-> FALSE, wind_speed_10m |-> 0, wave_height |-> 0],
     [isUndefined |-> FALSE, wind_speed_10m |-> 16, wave_height |-> 22],
     [isUndefined |-> FALSE, wind_speed_10m |-> 25, wave_height |-> 50]}

SpeedRoutes == {r \in LineRoutes : Len(r.pts) <= 2}

SpeedCalls ==
    [route : SpeedRoutes,
     currentLat : {p[1] : p \in LinePoints}, currentLng : {p[2] : p \in LinePoints},
     speedKnots : KnotInputs,
     options : [vesselType : AllVesselTypes, weather : SpeedWeathers,
                bottlenecks : {[isNull |-> TRUE, zones |-> <<>>]}]]

InitSpeed ==
    /\ pc = "ready"
    /\ now = FirstStart
    /\ congestionCache = EmptyCache
    /\ call \in SpeedCalls
    /\ rets = <<>>

\* A caller runs the estimateArrival of part_000.
EstimateArrivalAtSpeed ==
    /\ pc = "ready"
    /\ rets' = <<estimateArrival(call.route, call.currentLat, call.currentLng, call.speedKnots,
                                 call.options, congestionCache, now)>>
    /\ pc' = "estimateArrival"
    /\ UNCHANGED <<now, congestionCache, call>>

\* A caller runs the estimateArrival of seaRoutes.js (server.js:179).
EstimateArrivalWithoutOptions ==
    /\ pc = "ready"
    /\ rets' = <<estimateArrivalWithoutOptions(call.route, call.currentLat, call.currentLng,
                                               call.speedKnots, now)>>
    /\ pc' = "estimateArrivalWithoutOptions"
    /\ UNCHANGED <<now, congestionCache, call>>

NextSpeed == EstimateArrivalAtSpeed \/ EstimateArrivalWithoutOptions

SpecSpeed == InitSpeed /\ [][NextSpeed]_vars

\* The table speeds of the keys found in the vessel type of the call
MatchingSpeeds ==
    { VESSEL_TYPE_SPEEDS[i].speed :
        i \in {j \in 1..Len(VESSEL_TYPE_SPEEDS) :
                 VESSEL_TYPE_SPEEDS[j].key \in VesselTypeKeys[call.options.vesselType.text]} }

\* C11: without weather, the effective speed is the given speedKnots when it
\* is positive; otherwise, when a vessel type is given, a table speed of that
\* type, and 12 when no key matches; otherwise 12.  (effectiveSpeed is
\* reported in tenths of a knot.)
C11_BaseSpeedOrder ==
    (pc = "estimateArrival" /\ call.options.weather.isUndefined) =>
        LET speed == rets[1].effectiveSpeed
            knots == call.speedKnots
            type  == call.options.vesselType
        IN  IF ~knots.isUndefined /\ knots.knots > 0 THEN speed = 10 * knots.knots
            ELSE IF ~type.isUndefined /\ type.text # "" /\ MatchingSpeeds # {}
                 THEN \E v \in MatchingSpeeds : speed = 10 * v
            ELSE speed = 10 * 12

\* An estimate was made for a vessel that reports 14 kn and has a type found
\* in the table: the reported speed was kept.
C11_Witness ==
    /\ pc = "estimateArrival"
    /\ call.options.weather.isUndefined
    /\ ~call.speedKnots.isUndefined /\ call.speedKnots.knots = 14
    /\ call.options.vesselType.text = "Container Tanker"
    /\ rets[1].effectiveSpeed = 140

\* The first table index whose key the vessel type of the call includes
FirstMatchingIndex ==
    CHOOSE i \in 1..Len(VESSEL_TYPE_SPEEDS) :
        /\ VESSEL_TYPE_SPEEDS[i].key \in VesselTypeKeys[call.options.vesselType.text]
        /\ \A j \in 1..(i - 1) :
             VESSEL_TYPE_SPEEDS[j].key \notin VesselTypeKeys[call.options.vesselType.text]

\* C12: with no positive speed and no weather, the effective speed is the
\* table speed of the first key, in table order, found in the vessel type:
\* speed 0 and type "container tanker" give 18, not 13 and not 12.
C12_FirstKeyInTableOrder ==
    (/\ pc = "estimateArrival"
     /\ call.options.weather.isUndefined
     /\ (call.speedKnots.isUndefined \/ call.speedKnots.knots <= 0)
     /\ ~call.options.vesselType.isUndefined
     /\ MatchingSpeeds # {}) =>
        /\ rets[1].effectiveSpeed = 10 * VESSEL_TYPE_SPEEDS[FirstMatchingIndex].speed
        /\ call.options.vesselType.text = "Container Tanker" => rets[1].effectiveSpeed = 180

\* An estimate was made with speed 0 for a "container tanker".
C12_Witness ==
    /\ pc = "estimateArrival"
    /\ call.options.weather.isUndefined
    /\ ~call.speedKnots.isUndefined /\ call.speedKnots.knots = 0
    /\ call.options.vesselType.text = "Container Tanker"
    /\ rets[1].effectiveSpeed = 180

\* C15: estimateArrival never divides by a non-positive speed: whatever speed
\* is reported (zero and missing included) the effective speed is positive
\* after the weather adjustment, hoursRemaining is not negative and the eta is
\* not before the call; the estimateArrival without options does the same for
\* a zero or missing speed.
C15_PositiveSpeed ==
    /\ pc = "estimateArrival" =>
        /\ EffectiveSpeed(call.speedKnots, call.options) > 0
        /\ rets[1].effectiveSpeed > 0
        /\ rets[1].hoursRemaining >= 0
        /\ rets[1].eta >= now
    /\ (pc = "estimateArrivalWithoutOptions"
        /\ (call.speedKnots.isUndefined \/ call.speedKnots.knots >= 0)) =>
        /\ rets[1].hoursRemaining >= 0
        /\ rets[1].eta >= now

\* An estimate was made with speed 0 in a storm for a vessel that still has
\* way to go.
C15_Witness ==
    /\ pc = "estimateArrival"
    /\ ~call.speedKnots.isUndefined /\ call.speedKnots.knots = 0
    /\ ~call.options.weather.isUndefined /\ call.options.weather.wind_speed_10m = 25
    /\ rets[1].distanceRemaining > 0
    /\ rets[1].eta > now

-----------------------------------------------------------------------------
(* Weather adjustment: calls of adjustSpeedForWeather *)

\* Largest wind (m/s) and base speed (knots) handed to adjustSpeedForWeather
MaxWind == 26

MaxKnots == 20

\* Wave heights in decimetres; 0 stands for a missing field as well
WaveHeights == {0, 15, 20, 22, 24, 30, 60, 120}

WeatherCalls ==
    [baseSpeed : {k * SpeedUnit : k \in 1..MaxKnots},
     weather : {[isUndefined |-> TRUE, wind_speed_10m |-> 0, wave_height |-> 0]}
               \cup [isUndefined : {FALSE}, wind_speed_10m : 0..MaxWind, wave_height : WaveHeights]]

InitWeather ==
    /\ pc = "ready"
    /\ now = FirstStart
    /\ congestionCache = EmptyCache
    /\ call \in WeatherCalls
    /\ rets = <<>>

\* estimateArrival adjusts the base speed for the weather (part_000:182).
AdjustSpeedForWeather ==
    /\ pc = "ready"
    /\ rets' = <<adjustSpeedForWeather(call.baseSpeed, call.weather)>>
    /\ pc' = "adjustSpeedForWeather"
    /\ UNCHANGED <<now, congestionCache, call>>

NextWeather == AdjustSpeedForWeather

SpecWeather == InitWeather /\ [][NextWeather]_vars

\* C13: for every base speed > 0 and every weather input (any wind, any wave
\* height, missing fields, no weather) the adjusted speed is at least half
\* the base speed.
C13_SpeedFloor ==
    pc = "adjustSpeedForWeather" => 2 * rets[1] >= call.baseSpeed

\* A speed was adjusted for storm wind and high seas, and came out lower.
C13_Witness ==
    /\ pc = "adjustSpeedForWeather"
    /\ ~call.weather.isUndefined
    /\ call.weather.wind_speed_10m >= 25 /\ call.weather.wave_height >= 60
    /\ rets[1] < call.baseSpeed

\* C14: with wind 25 m/s and base speed 14 kn the adjusted speed is exactly
\* 14 * 0.5 = 7 kn, for every wave height.
C14_StormHalvesSpeed ==
    (/\ pc = "adjustSpeedForWeather"
     /\ ~call.weather.isUndefined
     /\ call.weather.wind_speed_10m = 25
     /\ call.baseSpeed = 14 * SpeedUnit) => rets[1] = 7 * SpeedUnit

\* The factors of C23, in 1e-4: the wind factor falls linearly from 1.0 at
\* 15 m/s to 0.7 at 25 m/s and beyond, the wave factor from 1.0 at 2 m to 0.8
\* at 4 m and beyond (wave heights in decimetres)
LinearWindFactor(wind) ==
    IF wind < 15 THEN SpeedUnit ELSE IF wind >= 25 THEN 7000 ELSE SpeedUnit - 300 * (wind - 15)

LinearWaveFactor(wave) ==
    IF wave < 20 THEN SpeedUnit ELSE IF wave >= 40 THEN 8000 ELSE SpeedUnit - 100 * (wave - 20)

\* C23: the adjusted speed is base * windFactor * waveFactor (the two
\* reductions multiply), bounded below by 0.5 * base, with the wind factor
\* and the wave factor above; e.g. wind 25 m/s with calm sea gives 0.7 * base.
C23_LinearMultiplicativeFactors ==
    (pc = "adjustSpeedForWeather" /\ ~call.weather.isUndefined) =>
        LET knots == call.baseSpeed \div SpeedUnit
            scaled == (knots * LinearWindFactor(call.weather.wind_speed_10m)
                             * LinearWaveFactor(call.weather.wave_height)) \div SpeedUnit
            floor == call.baseSpeed \div 2
        IN  rets[1] = IF scaled >= floor THEN scaled ELSE floor

-----------------------------------------------------------------------------
(* Proximity warning: bottlenecks.js checkBottleneckProximity *)

\* The `return null` of checkBottleneckProximity
NoWarning == [isNull |-> TRUE]

\* bottlenecks.js:435-455  the warning built for the zone the vessel is in
ProximityWarning(zone, distance, cache, t) ==
    LET cachedWeather == CachedWeather(cache, zone)
        dynamic == calculateDynamicSeverity(zone, cachedWeather, t)
        live == ~cachedWeather.isUndefined /\ ~cachedWeather.error
    IN  [isNull |-> FALSE, zone |-> zone.name, severity |-> dynamic.severity,
         delayMinutes |-> dynamic.estimatedDelay, description |-> zone.description,
         distance |-> RoundDiv(distance, 1000), activityLevel |-> dynamic.activityLevel,
         trend |-> dynamic.trend, warnings |-> dynamic.warnings,
         dataSource |-> IF live THEN "live-weather" ELSE "time-based"]

\* the loop run from the last zone to the first, so that the last zone that
\* contains the position decides
RECURSIVE ProximityScanBack(_, _, _, _, _, _)
ProximityScanBack(vesselLat, vesselLng, zones, j, cache, t) ==
    IF j < 1 THEN NoWarning
    ELSE LET distance == zoneHaversineDistance(vesselLat, vesselLng, zones[j].lat, zones[j].lng)
         IN  IF distance <= zones[j].radius
             THEN ProximityWarning(zones[j], distance, cache, t)
             ELSE ProximityScanBack(vesselLat, vesselLng, zones, j - 1, cache, t)

\* bottlenecks.js:432-456  the loop over the catalogue, from 1-based index j on
RECURSIVE ProximityScan(_, _, _, _, _, _)
ProximityScan(vesselLat, vesselLng, zones, j, cache, t) ==
    IF j > Len(zones) THEN NoWarning
    ELSE LET distance == zoneHaversineDistance(vesselLat, vesselLng, zones[j].lat, zones[j].lng)
         IN  IF distance <= zones[j].radius
             THEN ProximityWarning(zones[j], distance, cache, t)
             ELSE ProximityScan(vesselLat, vesselLng, zones, j + 1, cache, t)

\* mutant of checkBottleneckProximity: the loop does not return at the first
\* hit, the last zone that contains the position is reported
checkBottleneckProximity_lastZone(vesselLat, vesselLng, zones, cache, t) ==
    IF vesselLat = 0 \/ vesselLng = 0 THEN NoWarning
    ELSE ProximityScanBack(vesselLat, vesselLng, zones, Len(zones), cache, t)

\* bottlenecks.js:429-459.  zones is the catalogue bottleneckZones, cache and t
\* the congestionCache and the clock the call reads; a coordinate 0 is falsy.
checkBottleneckProximity(vesselLat, vesselLng, zones, cache, t) ==
    IF vesselLat = 0 \/ vesselLng = 0 THEN NoWarning
    ELSE ProximityScan(vesselLat, vesselLng, zones, 1, cache, t)

\* A catalogue entry (bottlenecks.js:28-212): no severity, no estimatedDelay
CatalogueZone(id, name, lat, lng, radius, baseDelay) ==
    Zone(id, name, lat, lng, radius, baseDelay, FALSE, 0, "")

\* The catalogue bottleneckZones placed on the grid.  As in the catalogue of
\* bottlenecks.js, no zone reaches the equator or the prime meridian (the
\* nearest, Singapore, is centred 133 km from the equator with a radius of
\* 80 km); unlike there, zones overlap, and one has a grid point exactly on
\* its boundary.
Catalogues ==
    { << CatalogueZone("suez", "Suez Canal", 2, 2, 120000, 30),
         CatalogueZone("panama", "Panama Canal", 1, 2, 100000, 60),
         CatalogueZone("singapore", "Singapore Strait", 1, 1, 80000, 20) >>,
      << CatalogueZone("panama", "Panama Canal", 1, 2, 100000, 60),
         CatalogueZone("suez", "Suez Canal", 2, 2, 120000, 30),
         CatalogueZone("gibraltar", "Strait of Gibraltar", 2, 1, 60000, 10) >>,
      << CatalogueZone("gibraltar", "Strait of Gibraltar", 2, 1, 60000, 10),
         CatalogueZone("suez", "Suez Canal", 2, 2, 111195, 30),
         CatalogueZone("panama", "Panama Canal", 1, 2, 100000, 60) >>,
      << CatalogueZone("singapore", "Singapore Strait", 1, 1, 80000, 20),
         CatalogueZone("gibraltar", "Strait of Gibraltar", 2, 1, 60000, 10) >> }

ProximityCalls ==
    [vesselLat : Deg, vesselLng : Deg, bottleneckZones : Catalogues]

InitProximity ==
    /\ pc = "ready"
    /\ now \in StartTimes
    /\ congestionCache \in Caches
    /\ call \in ProximityCalls
    /\ rets = <<>>

\* The server attaches a warning to a vessel position (server.js:192).
CheckBottleneckProximity ==
    /\ pc = "ready"
    /\ rets' = <<checkBottleneckProximity(call.vesselLat, call.vesselLng, call.bottleneckZones,
                                          congestionCache, now)>>
    /\ pc' = "checkBottleneckProximity"
    /\ UNCHANGED <<now, congestionCache, call>>

NextProximity == CheckBottleneckProximity

SpecProximity == InitProximity /\ [][NextProximity]_vars

\* Catalogue indices of the zones whose radius contains the position of the call
ZonesAround ==
    { j \in 1..Len(call.bottleneckZones) :
        zoneHaversineDistance(call.vesselLat, call.vesselLng,
                              call.bottleneckZones[j].lat, call.bottleneckZones[j].lng)
            <= call.bottleneckZones[j].radius }

\* C16: checkBottleneckProximity returns null when no zone contains the
\* position, and otherwise the warning of the zone that comes first in
\* catalogue order among those whose centre is within their radius (boundary
\* included) of the position, never that of a later one.
C16_FirstZoneInCatalogueOrder ==
    pc = "checkBottleneckProximity" =>
        IF ZonesAround = {} THEN rets[1].isNull
        ELSE LET first == CHOOSE j \in ZonesAround : \A k \in ZonesAround : j <= k
             IN  /\ ~rets[1].isNull
                 /\ rets[1].zone = call.bottleneckZones[first].name
                 /\ \A k \in ZonesAround \ {first} :
                        rets[1].zone # call.bottleneckZones[k].name

\* The position lies in two zones of the catalogue, and a warning came back.
C16_Witness ==
    /\ pc = "checkBottleneckProximity"
    /\ Cardinality(ZonesAround) >= 2
    /\ ~rets[1].isNull

-----------------------------------------------------------------------------
(* Dynamic severity: calls of calculateDynamicSeverity *)

\* What fetchWeatherForZone returns when the fetch failed and nothing is
\* cached (bottlenecks.js:280)
ErrorWeather ==
    [isUndefined |-> FALSE, error |-> TRUE,
     windSpeed |-> [isNull |-> TRUE, v |-> 0], waveHeight |-> [isNull |-> TRUE, v |-> 0]]

\* A reading of the weather provider: a number or null (bottlenecks.js:268-270)
Reading(values) == {[isNull |-> TRUE, v |-> 0]} \cup {[isNull |-> FALSE, v |-> x] : x \in values}

\* Weather values handed to calculateDynamicSeverity: none, a failed fetch,
\* and readings on both sides of every threshold of bottlenecks.js:308-339
SeverityWeathers ==
    {NoWeather, ErrorWeather}
    \cup [isUndefined : {FALSE}, error : {FALSE},
          windSpeed : Reading({0, 12, 15, 20}), waveHeight : Reading({0, 2, 3, 4})]

SeverityZones ==
    { CatalogueZone("suez", "Suez Canal", 2, 2, 120000, 30),
      CatalogueZone("panama", "Panama Canal", 1, 2, 100000, 60),
      CatalogueZone("singapore", "Singapore Strait", 1, 1, 80000, 20),
      CatalogueZone("gibraltar", "Strait of Gibraltar", 2, 1, 60000, 10) }

SeverityCalls == [zone : SeverityZones, weather : SeverityWeathers]

InitSeverity ==
    /\ pc = "ready"
    /\ now \in StartTimes
    /\ congestionCache = EmptyCache
    /\ call \in SeverityCalls
    /\ rets = <<>>

\* Time passes before the call.
AdvanceClock ==
    /\ pc = "ready"
    /\ \E t \in StartTimes : now - t \in 0..(MaxTicks - 1)
    /\ now' = now + 1
    /\ UNCHANGED <<pc, congestionCache, call, rets>>

\* getBottlenecks, getBottlenecksSync or checkBottleneckProximity computes the
\* severity of a zone.
CalculateDynamicSeverity ==
    /\ pc = "ready"
    /\ rets' = <<calculateDynamicSeverity(call.zone, call.weather, now)>>
    /\ pc' = "calculateDynamicSeverity"
    /\ UNCHANGED <<now, congestionCache, call>>

NextSeverity == AdvanceClock \/ CalculateDynamicSeverity

SpecSeverity == InitSeverity /\ [][NextSeverity]_vars

\* low < medium < high
SeverityRank(severity) ==
    IF severity = "low" THEN 0 ELSE IF severity = "medium" THEN 1 ELSE 2

\* C17: for a fixed zone and evaluation time, the severity returned with any
\* weather input is never lower than the severity returned with no weather,
\* and the estimated delay with weather is never less than without.
C17_WeatherOnlyRaises ==
    pc = "calculateDynamicSeverity" =>
        LET calm == calculateDynamicSeverity(call.zone, NoWeather, now)
        IN  /\ rets[1].severity \in {"low", "medium", "high"}
            /\ SeverityRank(rets[1].severity) >= SeverityRank(calm.severity)
            /\ rets[1].estimatedDelay >= calm.estimatedDelay

\* A zone that the time heuristic alone rates high was evaluated with strong
\* (not storm) wind, and its delay grew.
C17_Witness ==
    /\ pc = "calculateDynamicSeverity"
    /\ calculateDynamicSeverity(call.zone, NoWeather, now).severity = "high"
    /\ ~call.weather.isUndefined /\ ~call.weather.error
    /\ ~call.weather.windSpeed.isNull /\ call.weather.windSpeed.v = 15
    /\ rets[1].estimatedDelay > calculateDynamicSeverity(call.zone, NoWeather, now).estimatedDelay

\* The threshold band of a wind reading (12, 15, 20 m/s) and of a wave
\* reading (2, 3, 4 m); 0 below the lowest threshold and for null
WindBand(reading) ==
    IF reading.isNull \/ reading.v < 12 THEN 0
    ELSE IF reading.v < 15 THEN 1 ELSE IF reading.v < 20 THEN 2 ELSE 3

WaveBand(reading) ==
    IF reading.isNull \/ reading.v < 2 THEN 0
    ELSE IF reading.v < 3 THEN 1 ELSE IF reading.v < 4 THEN 2 ELSE 3

UsableWeathers == {w \in SeverityWeathers : ~w.isUndefined /\ ~w.error}

\* C24: with usable weather, wind >= 20 m/s or waves >= 4 m always give
\* 'high'; wind >= 15 m/s or waves >= 3 m give at least 'medium'; wind in
\* [12, 15) and waves in [2, 3) add delay but leave the severity of the time
\* heuristic as it is; and the delay penalty of a higher threshold is
\* strictly larger than that of a lower one.
C24_WeatherThresholds ==
    (pc = "calculateDynamicSeverity" /\ call.weather \in UsableWeathers) =>
        LET wind == WindBand(call.weather.windSpeed)
            wave == WaveBand(call.weather.waveHeight)
            calm == calculateDynamicSeverity(call.zone, NoWeather, now)
        IN  /\ (wind = 3 \/ wave = 3) => rets[1].severity = "high"
            /\ (wind >= 2 \/ wave >= 2) => SeverityRank(rets[1].severity) >= 1
            /\ (wind <= 1 /\ wave <= 1) => rets[1].severity = calm.severity
            /\ (wind >= 1 \/ wave >= 1) => rets[1].estimatedDelay > calm.estimatedDelay
            /\ \A w \in UsableWeathers :
                  LET other == calculateDynamicSeverity(call.zone, w, now)
                  IN  /\ (w.waveHeight = call.weather.waveHeight /\ WindBand(w.windSpeed) < wind)
                          => other.estimatedDelay < rets[1].estimatedDelay
                      /\ (w.windSpeed = call.weather.windSpeed /\ WaveBand(w.waveHeight) < wave)
                          => other.estimatedDelay < rets[1].estimatedDelay

\* A zone the time heuristic rates low was evaluated with moderate wind and
\* moderate waves: it is still low, with a longer delay.
C24_Witness ==
    /\ pc = "calculateDynamicSeverity"
    /\ call.weather \in UsableWeathers
    /\ WindBand(call.weather.windSpeed) = 1 /\ WaveBand(call.weather.waveHeight) = 1
    /\ rets[1].severity = "low"
    /\ rets[1].estimatedDelay = call.zone.baseDelay + 25

-----------------------------------------------------------------------------
(* Live congestion: bottlenecks.js fetchWeatherForZone and getBottlenecks *)
(*                                                                         *)
(* pc is the state of the promise getBottlenecks returned; rets holds, for *)
(* every catalogue zone in catalogue order, the state of the async         *)
(* callback of that zone: waiting for the weather provider, or done with   *)
(* the zone's entry.                                                       *)

\* bottlenecks.js:25  CONGESTION_CACHE_TTL_MS, in minutes
CONGESTION_CACHE_TTL == 30

\* bottlenecks.js:256-259  a cached value younger than the TTL is returned
\* without a request
CacheFresh(cache, zone, t) ==
    zone.id \in DOMAIN cache /\ t - cache[zone.id].timestamp < CONGESTION_CACHE_TTL

\* What the request to the weather provider ends in: a response with
\* readings (numbers or null), a response that is not ok, a timeout of
\* fetchWithTimeout, a network error, or a body that is not JSON
ProviderResponses ==
    [kind : {"ok"}, windSpeed : Reading({0, 20}), waveHeight : Reading({3})]
    \cup [kind : {"http", "timeout", "network", "badjson"},
          windSpeed : {[isNull |-> TRUE, v |-> 0]}, waveHeight : {[isNull |-> TRUE, v |-> 0]}]

\* mutant of CatchFetchError: the error is thrown on instead of being replaced
CatchFetchError_rethrows(cache, zone) ==
    [rejected |-> TRUE, weather |-> ErrorWeather, lastUpdated |-> 0]

\* bottlenecks.js:277-281  the catch block: the cached value (of any age) if
\* there is one, otherwise a value marked with the error
CatchFetchError(cache, zone) ==
    IF zone.id \in DOMAIN cache
    THEN [rejected |-> FALSE, weather |-> cache[zone.id].data,
          lastUpdated |-> cache[zone.id].timestamp]
    ELSE [rejected |-> FALSE, weather |-> ErrorWeather, lastUpdated |-> 0]

\* bottlenecks.js:261-281  fetchWeatherForZone from the moment the request
\* ends: the settlement of its promise.  lastUpdated is the weather's
\* fetchedAt (0 when it has none).
fetchWeatherForZone(cache, zone, response, t) ==
    IF response.kind = "ok"
    THEN [rejected |-> FALSE,
          weather |-> [isUndefined |-> FALSE, error |-> FALSE,
                       windSpeed |-> response.windSpeed, waveHeight |-> response.waveHeight],
          lastUpdated |-> t]
    ELSE CatchFetchError(cache, zone)

\* bottlenecks.js:365-377  the entry of a zone, built at time t
BottleneckEntry(zone, fetched, t) ==
    LET dynamic == calculateDynamicSeverity(zone, fetched.weather, t)
    IN  [id |-> zone.id, name |-> zone.name, description |-> zone.description,
         lat |-> zone.lat, lng |-> zone.lng, radius |-> zone.radius,
         baseDelay |-> zone.baseDelay, hasEstimatedDelay |-> TRUE,
         severity |-> dynamic.severity, estimatedDelay |-> dynamic.estimatedDelay,
         activityLevel |-> dynamic.activityLevel,
         weather |-> IF fetched.weather.error THEN NoWeather ELSE fetched.weather,
         trend |-> dynamic.trend, warnings |-> dynamic.warnings,
         lastUpdated |-> IF fetched.lastUpdated = 0 THEN t ELSE fetched.lastUpdated,
         dataSource |-> "live-weather"]

\* The state of a zone's callback
Fetching == [state |-> "fetching"]

Done(entry) == [state |-> "done", entry |-> entry]

Rejected == [state |-> "rejected"]

\* Promise.all over the callbacks (bottlenecks.js:362): rejected as soon as
\* one callback is, resolved when all are done
PromiseAll(slots) ==
    IF \E i \in 1..Len(slots) : slots[i].state = "rejected" THEN "rejected"
    ELSE IF \A i \in 1..Len(slots) : slots[i].state = "done" THEN "resolved"
    ELSE "pending"

LiveCatalogues ==
    { << CatalogueZone("suez", "Suez Canal", 2, 2, 120000, 30),
         CatalogueZone("panama", "Panama Canal", 1, 2, 100000, 60) >>,
      << CatalogueZone("panama", "Panama Canal", 1, 2, 100000, 60),
         CatalogueZone("gibraltar", "Strait of Gibraltar", 2, 1, 60000, 10) >> }

InitLive ==
    /\ pc = "ready"
    /\ now \in StartTimes
    /\ congestionCache \in Caches
    /\ call \in [bottleneckZones : LiveCatalogues]
    /\ rets = <<>>

\* bottlenecks.js:361-364 and 254-263: getBottlenecks is called.  Every
\* callback runs up to its first await: a zone with a fresh cached value has
\* its entry at once, for the others a request is sent.
GetBottlenecks ==
    /\ pc = "ready"
    /\ rets' = [i \in 1..Len(call.bottleneckZones) |->
                  LET zone == call.bottleneckZones[i]
                  IN  IF CacheFresh(congestionCache, zone, now)
                      THEN Done(BottleneckEntry(zone,
                                    [rejected |-> FALSE, weather |-> congestionCache[zone.id].data,
                                     lastUpdated |-> congestionCache[zone.id].timestamp], now))
                      ELSE Fetching]
    /\ pc' = PromiseAll(rets')
    /\ UNCHANGED <<now, congestionCache, call>>

\* bottlenecks.js:263-281 and 365-377: the request of one zone ends; a good
\* response is cached, and the callback of the zone runs to its end.
FetchSettles ==
    /\ pc = "pending"
    /\ \E i \in 1..Len(rets), response \in ProviderResponses :
        LET zone == call.bottleneckZones[i]
            fetched == fetchWeatherForZone(congestionCache, zone, response, now)
        IN  /\ rets[i].state = "fetching"
            /\ congestionCache' =
                 IF response.kind = "ok"
                 THEN (zone.id :> [data |-> fetched.weather, timestamp |-> now]) @@ congestionCache
                 ELSE congestionCache
            /\ rets' = [rets EXCEPT ![i] = IF fetched.rejected THEN Rejected
                                           ELSE Done(BottleneckEntry(zone, fetched, now))]
            /\ pc' = PromiseAll(rets')
    /\ UNCHANGED <<now, call>>

\* A minute passes while requests are under way.
TickWhilePending ==
    /\ pc = "pending"
    /\ \E t \in StartTimes : now - t \in 0..(MaxTicks - 1)
    /\ now' = now + 1
    /\ UNCHANGED <<pc, congestionCache, call, rets>>

NextLive == GetBottlenecks \/ FetchSettles \/ TickWhilePending

SpecLive == InitLive /\ [][NextLive]_vars

\* C18: a failure of the weather provider never propagates: the promise of
\* getBottlenecks is never rejected, and when it resolves there is exactly one
\* entry per catalogue zone, in catalogue order; a zone without weather (the
\* request failed and nothing was cached) has the severity and the delay of
\* the time heuristic alone.
C18_ProviderFailureContained ==
    /\ pc # "rejected"
    /\ pc = "resolved" =>
        /\ Len(rets) = Len(call.bottleneckZones)
        /\ \A i \in 1..Len(rets) :
            LET zone == call.bottleneckZones[i]
                entry == rets[i].entry
                byTime == calculateDynamicSeverity(zone, NoWeather, entry.lastUpdated)
            IN  /\ rets[i].state = "done"
                /\ entry.id = zone.id
                /\ entry.weather.isUndefined =>
                     /\ zone.id \notin DOMAIN congestionCache
                     /\ entry.severity = byTime.severity
                     /\ entry.estimatedDelay = byTime.estimatedDelay

\* getBottlenecks resolved although the request of one zone failed with
\* nothing cached, while another zone has its weather.
C18_Witness ==
    /\ pc = "resolved"
    /\ \E i, j \in 1..Len(rets) :
        /\ rets[i].entry.weather.isUndefined
        /\ ~rets[j].entry.weather.isUndefined
        /\ rets[j].entry.lastUpdated < rets[i].entry.lastUpdated

-----------------------------------------------------------------------------
(* Route of a tracked vessel: server.js fetchMyShipTrackingRoute, ensureRoute *)

\* What the two requests of fetchMyShipTrackingRoute end in: an exception, a
\* response that is not ok, an empty route list, or the points [lat, lon] of
\* the first route listed
ScrapeResponses ==
    {[kind |-> k, points |-> <<>>] : k \in {"throw", "notok", "noroutes"}}
    \cup {[kind |-> "points", points |-> ps]
            : ps \in {<<>>, <<<<2, 1>>>>, <<<<2, 1>>, <<1, 2>>>>, <<<<2, 1>>, <<2, 2>>, <<1, 2>>>>}}

\* server.js:401-406  the scraped points as waypoints
ScrapedRoute(points, originName, destName) ==
    [i \in 1..Len(points) |->
        Waypoint(points[i][1], points[i][2],
                 IF i = 1 THEN <<OrString(originName, "Origin")>>
                 ELSE IF i = Len(points) THEN <<OrString(destName, "Destination")>>
                 ELSE <<"Waypoint ", i - 1>>,
                 IF i = 1 THEN "origin" ELSE IF i = Len(points) THEN "destination" ELSE "waypoint")]

\* server.js:379-411.  The result is [isNull, pts].
fetchMyShipTrackingRoute(mmsi, originName, destName, response) ==
    IF mmsi = "" THEN [isNull |-> TRUE, pts |-> <<>>]
    ELSE IF response.kind # "points" \/ Len(response.points) < 2
         THEN [isNull |-> TRUE, pts |-> <<>>]
         ELSE [isNull |-> FALSE, pts |-> ScrapedRoute(response.points, originName, destName)]

\* server.js:958-984.  vessel.route is [isNull, pts]; a missing mmsi or
\* routeSource is the empty string and a missing coordinate is 0, all falsy.
\* hasCoords and hasRoute are computed once, on entry.
ensureRoute(vessel, response, searoute) ==
    LET hasCoords == vessel.originLat # 0 /\ vessel.originLng # 0
                     /\ vessel.destLat # 0 /\ vessel.destLng # 0
        hasRoute == ~vessel.route.isNull /\ Len(vessel.route.pts) >= 2
        scrapes == vessel.mmsi # "" /\ (~hasRoute \/ vessel.routeSource = "searoute")
        scrapedRoute == fetchMyShipTrackingRoute(vessel.mmsi, vessel.origin, vessel.destination,
                                                 response)
        scraped == IF scrapes /\ ~scrapedRoute.isNull /\ Len(scrapedRoute.pts) >= 2
                   THEN [vessel EXCEPT !.route = scrapedRoute, !.routeSource = "myshiptracking"]
                   ELSE vessel
    IN  IF hasCoords /\ (~hasRoute \/ scraped.routeSource # "myshiptracking")
        THEN [scraped EXCEPT
                !.route = [isNull |-> FALSE,
                           pts |-> calculateRoute(vessel.originLat, vessel.originLng,
                                                  vessel.destLat, vessel.destLng,
                                                  vessel.origin, vessel.destination, searoute)],
                !.routeSource = OrString(scraped.routeSource, "searoute")]
        ELSE scraped

\* Vessels as they enter ensureRoute: without a route, with a calculated
\* route, or with a route scraped earlier
StoredRoutes ==
    { [route |-> [isNull |-> TRUE, pts |-> <<>>], routeSource |-> ""],
      [route |-> [isNull |-> FALSE, pts |-> FallbackRoute(1, 1, 2, 2, "Kolkata", "Norfolk")],
       routeSource |-> "searoute"],
      [route |-> [isNull |-> FALSE,
                  pts |-> ScrapedRoute(<<<<1, 1>>, <<1, 2>>, <<2, 2>>>>, "Kolkata", "Norfolk")],
       routeSource |-> "myshiptracking"] }

Vessels ==
    { [mmsi |-> m, origin |-> "Kolkata", destination |-> "Norfolk",
       originLat |-> e.originLat, originLng |-> e.originLng,
       destLat |-> e.destLat, destLng |-> e.destLng,
       route |-> r.route, routeSource |-> r.routeSource]
        : m \in {"", "244660000"}, e \in Endpoints, r \in StoredRoutes }

EnsureCalls ==
    [vessel : Vessels, response : ScrapeResponses,
     searoute : {r \in RouterOutcomes : Len(r.coords) <= 3}]

InitEnsure ==
    /\ pc = "ready"
    /\ now = FirstStart
    /\ congestionCache = EmptyCache
    /\ call \in EnsureCalls
    /\ rets = <<>>

\* A request handler or the position refresh runs ensureRoute on a vessel
\* (server.js:176).
EnsureRoute ==
    /\ pc = "ready"
    /\ rets' = <<ensureRoute(call.vessel, call.response, call.searoute)>>
    /\ pc' = "ensureRoute"
    /\ UNCHANGED <<now, congestionCache, call>>

NextEnsure == EnsureRoute

SpecEnsure == InitEnsure /\ [][NextEnsure]_vars

\* C26: after ensureRoute, routeSource = 'myshiptracking' implies that the
\* route is one obtained from fetchMyShipTrackingRoute: the one scraped in
\* this call, or the scraped route the vessel entered with.
C26_ScrapedRouteKept ==
    (pc = "ensureRoute" /\ rets[1].routeSource = "myshiptracking") =>
        \/ rets[1].route = fetchMyShipTrackingRoute(call.vessel.mmsi, call.vessel.origin,
                                                    call.vessel.destination, call.response)
        \/ (call.vessel.routeSource = "myshiptracking" /\ rets[1].route = call.vessel.route)

-----------------------------------------------------------------------------
(* The notification scheduler (server.js:224-247) and the notification     *)
(* endpoints (server.js:1558-1610).  In SpecNotify `call` holds the module *)
(* state of server.js (the subscriptions array, the subscriptions file and *)
(* the mails accepted by the transporter), `rets` the asynchronous         *)
(* invocations started so far (ticks and test requests), each at its       *)
(* await or finished, and pc tells whether the scheduler has been started. *)

\* asynchronous invocations (ticks of the scheduler, test requests) in one run
MaxRuns == 2
\* length of the subscriptions array
MaxSubscriptions == 2

\* server.js:130-134 and 1565  the cadence normalizeCadenceHours gives a
\* request that names none (stored subscriptions have a cadence of 1 hour)
Cadences == {24}

\* server.js:164 and 237  the message of the error the catch block records
SendError == "Email service not configured"

\* server.js:1566-1575  a subscription; nextRun, lastSentAt and updatedAt are
\* epoch minutes (0: absent), lastError is "" when absent
Subscription(id, active, nextRun, cadenceHours) ==
    [id |-> id, active |-> active, nextRun |-> nextRun, cadenceHours |-> cadenceHours,
     lastSentAt |-> 0, lastError |-> "", updatedAt |-> 0]

\* mutant of Due: the active flag is not looked at
Due_ignoresActive(sub, t) ==
    sub.nextRun # 0 /\ sub.nextRun <= t

\* server.js:228-229  the two guards of the loop body: the subscription is
\* active, and its nextRun is set and not after the tick's `now`
Due(sub, t) ==
    sub.active /\ sub.nextRun # 0 /\ sub.nextRun <= t

\* server.js:227-229  the index of the first subscription at or after `from`
\* that passes the guards (0: the loop runs to its end)
NextDue(subs, from, t) ==
    IF \E i \in from..Len(subs) : Due(subs[i], t)
    THEN CHOOSE i \in from..Len(subs) :
            Due(subs[i], t) /\ \A j \in from..(i - 1) : ~Due(subs[j], t)
    ELSE 0

\* An invocation at its await of sendVesselEmailUpdate(subs[index]); due is
\* the nextRun the subscription had when the send was started
Awaiting(kind, t, index, due) ==
    [kind |-> kind, now |-> t, index |-> index, status |-> "awaiting", due |-> due]

\* An invocation that has returned
Finished(kind) ==
    [kind |-> kind, now |-> 0, index |-> 0, status |-> "done", due |-> 0]

\* server.js:227-231  the loop of a tick that took `now` = t, run from index
\* `from` up to its next await or to its end
RunLoop(subs, from, t) ==
    LET i == NextDue(subs, from, t)
    IN  IF i = 0 THEN Finished("tick") ELSE Awaiting("tick", t, i, subs[i].nextRun)

\* server.js:225 and 240  what the subscriptions file holds once the tick is
\* at `tick`: saveSubscriptions runs when the loop has ended, but not after
\* the early return on an empty array
FileAfter(file, subs, tick) ==
    IF tick.status = "done" /\ Len(subs) > 0 THEN subs ELSE file

\* server.js:224-231  runNotificationsTick from its call to its first await
runNotificationsTick(subs, t) ==
    IF Len(subs) = 0 THEN Finished("tick") ELSE RunLoop(subs, 1, t)

\* server.js:232-234  the send of subs[i] succeeded at time t
AfterSend(subs, i, t) ==
    [subs EXCEPT ![i].lastSentAt = t,
                 ![i].nextRun = t + subs[i].cadenceHours * 60]

\* server.js:235-237  the send of subs[i] threw
AfterError(subs, i) ==
    [subs EXCEPT ![i].lastError = SendError]

\* The subscriptions files the server can start from
StoredSubscriptions ==
    LET stored == {Subscription(1, a, n, 1) : a \in BOOLEAN,
                                              n \in {0, FirstStart, FirstStart + 1}}
    IN  {<<>>} \cup {<<s>> : s \in stored}
        \cup {<<s, [r EXCEPT !.id = 2]>> : s \in stored, r \in stored}

InitNotify ==
    /\ pc = "ready"
    /\ now = FirstStart
    /\ congestionCache = EmptyCache
    /\ call \in [subscriptions : {<<>>}, file : StoredSubscriptions, outbox : {<<>>}]
    /\ rets = <<>>

\* server.js:242-247  startNotificationsScheduler: the file is loaded, a
\* first tick is run and the interval is set.
StartNotificationsScheduler ==
    /\ pc = "ready"
    /\ LET tick == runNotificationsTick(call.file, now)
       IN  /\ rets' = <<tick>>
           /\ call' = [call EXCEPT !.subscriptions = call.file,
                                   !.file = FileAfter(call.file, call.file, tick)]
    /\ pc' = "scheduled"
    /\ UNCHANGED <<now, congestionCache>>

\* server.js:246  the interval fires, a minute after the last time, and
\* runNotificationsTick is called whatever the earlier ticks are doing.
IntervalFires ==
    /\ pc = "scheduled"
    /\ Len(rets) < MaxRuns
    /\ now' = now + 1
    /\ LET tick == runNotificationsTick(call.subscriptions, now')
       IN  /\ rets' = Append(rets, tick)
           /\ call' = [call EXCEPT !.file = FileAfter(call.file, call.subscriptions, tick)]
    /\ UNCHANGED <<pc, congestionCache>>

\* server.js:231-234 and 216: the send a tick awaits has succeeded: the mail
\* is out, lastSentAt and nextRun are set, and the loop goes on.
SendSucceeds ==
    /\ pc = "scheduled"
    /\ \E k \in 1..Len(rets) :
        /\ rets[k].kind = "tick" /\ rets[k].status = "awaiting"
        /\ LET i == rets[k].index
               subs == AfterSend(call.subscriptions, i, now)
               tick == RunLoop(subs, i + 1, rets[k].now)
           IN  /\ rets' = [rets EXCEPT ![k] = tick]
               /\ call' = [subscriptions |-> subs,
                           file |-> FileAfter(call.file, subs, tick),
                           outbox |-> Append(call.outbox,
                                             [to |-> subs[i].id, due |-> rets[k].due,
                                              by |-> "tick"])]
    /\ UNCHANGED <<pc, now, congestionCache>>

\* server.js:235-237: the send a tick awaits has thrown: the error is
\* recorded and the loop goes on.
SendFails ==
    /\ pc = "scheduled"
    /\ \E k \in 1..Len(rets) :
        /\ rets[k].kind = "tick" /\ rets[k].status = "awaiting"
        /\ LET i == rets[k].index
               subs == AfterError(call.subscriptions, i)
               tick == RunLoop(subs, i + 1, rets[k].now)
           IN  /\ rets' = [rets EXCEPT ![k] = tick]
               /\ call' = [call EXCEPT !.subscriptions = subs,
                                       !.file = FileAfter(call.file, subs, tick)]
    /\ UNCHANGED <<pc, now, congestionCache>>

\* server.js:1558-1581  POST /api/notifications: a new entry is pushed.
Subscribe ==
    /\ pc = "scheduled"
    /\ Len(call.subscriptions) < MaxSubscriptions
    /\ \E cadence \in Cadences :
        LET entry == [Subscription(Len(call.subscriptions) + 1, TRUE,
                                   now + cadence * 60, cadence)
                        EXCEPT !.updatedAt = now]
            subs == Append(call.subscriptions, entry)
        IN  call' = [call EXCEPT !.subscriptions = subs, !.file = subs]
    /\ UNCHANGED <<pc, now, congestionCache, rets>>

\* server.js:1583-1591  POST /api/notifications/:id/cancel
Cancel ==
    /\ pc = "scheduled"
    /\ \E i \in 1..Len(call.subscriptions) :
        LET subs == [call.subscriptions EXCEPT ![i].active = FALSE,
                                               ![i].updatedAt = now]
        IN  call' = [call EXCEPT !.subscriptions = subs, !.file = subs]
    /\ UNCHANGED <<pc, now, congestionCache, rets>>

\* server.js:1593-1600  POST /api/notifications/:id/test up to its await:
\* the send is started whether the subscription is active or not.
TestRequested ==
    /\ pc = "scheduled"
    /\ Len(rets) < MaxRuns
    /\ \E i \in 1..Len(call.subscriptions) :
        rets' = Append(rets, Awaiting("test", now, i, call.subscriptions[i].nextRun))
    /\ UNCHANGED <<pc, now, congestionCache, call>>

\* server.js:1601-1605  the send of a test request has succeeded.
TestSucceeds ==
    /\ pc = "scheduled"
    /\ \E k \in 1..Len(rets) :
        /\ rets[k].kind = "test" /\ rets[k].status = "awaiting"
        /\ LET i == rets[k].index
               subs == [AfterSend(call.subscriptions, i, now) EXCEPT ![i].updatedAt = now]
           IN  /\ rets' = [rets EXCEPT ![k] = Finished("test")]
               /\ call' = [subscriptions |-> subs, file |-> subs,
                           outbox |-> Append(call.outbox,
                                             [to |-> subs[i].id, due |-> rets[k].due,
                                              by |-> "test"])]
    /\ UNCHANGED <<pc, now, congestionCache>>

\* server.js:1606-1608  the send of a test request has thrown: a 500 is
\* answered and nothing is recorded.
TestFails ==
    /\ pc = "scheduled"
    /\ \E k \in 1..Len(rets) :
        /\ rets[k].kind = "test" /\ rets[k].status = "awaiting"
        /\ rets' = [rets EXCEPT ![k] = Finished("test")]
    /\ UNCHANGED <<pc, now, congestionCache, call>>

NextNotify ==
    \/ StartNotificationsScheduler
    \/ IntervalFires
    \/ SendSucceeds
    \/ SendFails
    \/ Subscribe
    \/ Cancel
    \/ TestRequested
    \/ TestSucceeds
    \/ TestFails

SpecNotify == InitNotify /\ [][NextNotify]_vars

\* The sends of the scheduler for subscription id with due time d that have
\* not failed: those a tick is awaiting, and those whose mail is out
SendsFor(id, d) ==
    Cardinality({k \in 1..Len(rets) :
                    /\ rets[k].kind = "tick" /\ rets[k].status = "awaiting"
                    /\ call.subscriptions[rets[k].index].id = id /\ rets[k].due = d})
    + Cardinality({m \in 1..Len(call.outbox) :
                    /\ call.outbox[m].by = "tick"
                    /\ call.outbox[m].to = id /\ call.outbox[m].due = d})

\* C27: the scheduler sends at most one email per subscription per due time:
\* for one subscription and one value of its nextRun, at most one send
\* started by a tick is under way or has gone out (sends that threw are not
\* counted), also when a tick begins while an earlier one awaits a send.
C27_OneSendPerDueTime ==
    pc = "scheduled" =>
        \A i \in 1..Len(call.subscriptions) :
            \A k \in 1..Len(rets) :
                (rets[k].kind = "tick" /\ rets[k].status = "awaiting" /\ rets[k].index = i)
                    => SendsFor(call.subscriptions[i].id, rets[k].due) <= 1

\* Tick k is, in the state given by r, at its await of the send for index i
AwaitsSend(r, k, i) ==
    /\ k \in 1..Len(r)
    /\ r[k].kind = "tick" /\ r[k].status = "awaiting" /\ r[k].index = i

\* C28: in every step, (1) a subscription whose active flag is false keeps
\* it false; (2) a tick that starts a send starts it for a subscription that
\* is active and whose nextRun is set and not after the `now` of the tick;
\* (3) when the send a tick awaited has succeeded, nextRun is the time of the
\* send plus cadenceHours; when it has failed, nextRun is unchanged and
\* lastError is recorded.  By (1) and (2) no tick iteration that reaches a
\* cancelled subscription starts a send for it.
C28_CancelledNeverSent ==
    [][ /\ \A i \in 1..Len(call.subscriptions) :
            ~call.subscriptions[i].active =>
                /\ i <= Len(call.subscriptions')
                /\ call.subscriptions'[i].id = call.subscriptions[i].id
                /\ ~call.subscriptions'[i].active
        /\ \A k \in 1..Len(rets'), i \in 1..Len(call.subscriptions') :
            (AwaitsSend(rets', k, i) /\ ~AwaitsSend(rets, k, i)) =>
                /\ call.subscriptions'[i].active
                /\ call.subscriptions'[i].nextRun # 0
                /\ call.subscriptions'[i].nextRun <= rets'[k].now
                /\ rets'[k].now <= now'
        /\ \A k \in 1..Len(rets), i \in 1..Len(call.subscriptions) :
            (AwaitsSend(rets, k, i) /\ ~AwaitsSend(rets', k, i)) =>
                IF Len(call.outbox') > Len(call.outbox)
                THEN /\ call.subscriptions'[i].nextRun
                            = now' + call.subscriptions[i].cadenceHours * 60
                     /\ call.subscriptions'[i].lastSentAt = now'
                ELSE /\ call.subscriptions'[i].nextRun = call.subscriptions[i].nextRun
                     /\ call.subscriptions'[i].lastSentAt = call.subscriptions[i].lastSentAt
                     /\ call.subscriptions'[i].lastError = SendError
      ]_vars

\* The first subscription was cancelled while its nextRun had passed, and a
\* tick begun after the cancellation has gone by it (the tick awaits the send
\* of the second subscription); no mail has gone to the cancelled one.
C28_Witness ==
    /\ pc = "scheduled"
    /\ Len(call.subscriptions) = 2
    /\ ~call.subscriptions[1].active
    /\ call.subscriptions[1].updatedAt # 0
    /\ call.subscriptions[1].lastSentAt = 0
    /\ \E k \in 1..Len(rets) :
        /\ AwaitsSend(rets, k, 2)
        /\ call.subscriptions[1].updatedAt < rets[k].now
        /\ call.subscriptions[1].nextRun # 0
        /\ call.subscriptions[1].nextRun <= rets[k].now
    /\ \A m \in 1..Len(call.outbox) : call.outbox[m].to # call.subscriptions[1].id

-----------------------------------------------------------------------------
(* The position refresh (server.js:522-543).  In SpecRefresh `call` holds  *)
(* the flag positionRefreshInFlight and the vessels a pass goes through,   *)
(* `rets` the calls of refreshTrackedPositions made so far, each at its    *)
(* await or returned.                                                      *)

\* calls of refreshTrackedPositions in one run
MaxPasses == 3

\* server.js:53  POSITION_REFRESH_MS, in minutes
POSITION_REFRESH == 60

\* server.js:526-528  the vessels of a pass: those of the database and the
\* tracked ones, one per mmsi
VesselLists ==
    { <<>>, <<"244660000">>, <<"636019825">>,
      <<"244660000", "636019825">>, <<"636019825", "244660000">> }

\* A call at its await of refreshPositionForVessel(list[index])
Refreshing(index, refreshed) ==
    [status |-> "refreshing", index |-> index, refreshed |-> refreshed,
     sawInFlight |-> FALSE, threw |-> FALSE]

\* server.js:523  a call that returned at the guard
Skipped ==
    [status |-> "skipped", index |-> 0, refreshed |-> 0, sawInFlight |-> TRUE, threw |-> FALSE]

\* A call that went through try / catch / finally and returned
Returned(refreshed, threw) ==
    [status |-> "done", index |-> 0, refreshed |-> refreshed,
     sawInFlight |-> FALSE, threw |-> threw]

\* mutant of FlagAfterPass: the flag is reset at the end of the try block
\* instead of in finally
FlagAfterPass_onlyOnCompletion(threw) == threw

\* server.js:534-536  finally: the flag when a pass ends, after the try block
\* or after the catch block
FlagAfterPass(threw) == FALSE

\* server.js:522-531  refreshTrackedPositions from its call to its first
\* await or to its return
refreshTrackedPositions(inFlight, list) ==
    IF inFlight THEN [pass |-> Skipped, inFlight |-> inFlight]
    ELSE IF Len(list) = 0
         THEN [pass |-> Returned(0, FALSE), inFlight |-> FlagAfterPass(FALSE)]
         ELSE [pass |-> Refreshing(1, 0), inFlight |-> TRUE]

InitRefresh ==
    /\ pc = "ready"
    /\ now = FirstStart
    /\ congestionCache = EmptyCache
    /\ call \in [positionRefreshInFlight : {FALSE}, list : VesselLists]
    /\ rets = <<>>

\* server.js:539-543  startPositionRefresh: a first pass is run and the
\* interval is set.
StartPositionRefresh ==
    /\ pc = "ready"
    /\ LET r == refreshTrackedPositions(call.positionRefreshInFlight, call.list)
       IN  /\ rets' = <<r.pass>>
           /\ call' = [call EXCEPT !.positionRefreshInFlight = r.inFlight]
    /\ pc' = "scheduled"
    /\ UNCHANGED <<now, congestionCache>>

\* server.js:542  the interval fires and refreshTrackedPositions is called.
RefreshTimerFires ==
    /\ pc = "scheduled"
    /\ Len(rets) < MaxPasses
    /\ now' = now + POSITION_REFRESH
    /\ LET r == refreshTrackedPositions(call.positionRefreshInFlight, call.list)
       IN  /\ rets' = Append(rets, r.pass)
           /\ call' = [call EXCEPT !.positionRefreshInFlight = r.inFlight]
    /\ UNCHANGED <<pc, congestionCache>>

\* server.js:529-531 and 534-536: the refresh of a vessel has returned; the
\* pass goes on to the next vessel, or ends.
VesselRefreshed ==
    /\ pc = "scheduled"
    /\ \E k \in 1..Len(rets) :
        /\ rets[k].status = "refreshing"
        /\ IF rets[k].index < Len(call.list)
           THEN /\ rets' = [rets EXCEPT ![k] = Refreshing(rets[k].index + 1,
                                                          rets[k].refreshed + 1)]
                /\ UNCHANGED call
           ELSE /\ rets' = [rets EXCEPT ![k] = Returned(rets[k].refreshed + 1, FALSE)]
                /\ call' = [call EXCEPT !.positionRefreshInFlight = FlagAfterPass(FALSE)]
    /\ UNCHANGED <<pc, now, congestionCache>>

\* server.js:532-536: the refresh of a vessel has thrown; the error is
\* logged and the pass ends.
VesselRefreshThrows ==
    /\ pc = "scheduled"
    /\ \E k \in 1..Len(rets) :
        /\ rets[k].status = "refreshing"
        /\ rets' = [rets EXCEPT ![k] = Returned(rets[k].refreshed, TRUE)]
        /\ call' = [call EXCEPT !.positionRefreshInFlight = FlagAfterPass(TRUE)]
    /\ UNCHANGED <<pc, now, congestionCache>>

NextRefresh ==
    \/ StartPositionRefresh
    \/ RefreshTimerFires
    \/ VesselRefreshed
    \/ VesselRefreshThrows

SpecRefresh == InitRefresh /\ [][NextRefresh]_vars

\* The calls of refreshTrackedPositions that are in the middle of a pass
RunningPasses == {k \in 1..Len(rets) : rets[k].status = "refreshing"}

\* C29: at most one pass runs at a time; positionRefreshInFlight is true
\* exactly while a pass runs, so it is false again once the pass has ended,
\* by completion or by a throw; a call made while the flag was true has
\* returned without refreshing a vessel.
C29_SinglePass ==
    /\ Cardinality(RunningPasses) <= 1
    /\ call.positionRefreshInFlight <=> RunningPasses # {}
    /\ \A k \in 1..Len(rets) :
        rets[k].sawInFlight => (rets[k].status = "skipped" /\ rets[k].refreshed = 0)

\* A call was turned away while a pass ran, that pass ended by a throw, and
\* a later call has started a new pass.
C29_Witness ==
    \E k1, k2, k3 \in 1..Len(rets) :
        /\ k1 < k2 /\ k2 < k3
        /\ rets[k1].threw
        /\ rets[k2].status = "skipped"
        /\ rets[k3].status = "refreshing"
        /\ call.positionRefreshInFlight

-----------------------------------------------------------------------------
(* GET /api/bottlenecks (server.js:1476-1478).  SpecEndpoint is SpecLive   *)
(* with the call of getBottlenecks made by the request handler; `call`     *)
(* holds, beside the catalogue, the response of the handler.               *)

\* What the handler has put on the wire: nothing yet, or a JSON body whose
\* `bottlenecks` member is an object or an array
NoResponse == [sent |-> FALSE, kind |-> "none", items |-> <<>>]

\* The value of an expression: a promise, or an array of entries
PromiseValue == [isPromise |-> TRUE, items |-> <<>>]

ArrayValue(entries) == [isPromise |-> FALSE, items |-> entries]

\* res.json -> JSON.stringify of a value: an array is written with its
\* elements; a promise is an object without enumerable properties of its
\* own and is written as {} whatever it is, or will be, settled with
ToJSON(value) ==
    IF value.isPromise
    THEN [sent |-> TRUE, kind |-> "object", items |-> <<>>]
    ELSE [sent |-> TRUE, kind |-> "array", items |-> value.items]

InitEndpoint ==
    /\ pc = "ready"
    /\ now \in StartTimes
    /\ congestionCache \in Caches
    /\ call \in [bottleneckZones : LiveCatalogues, response : {NoResponse}]
    /\ rets = <<>>

\* server.js:1476-1478 with bottlenecks.js:361-364 and 254-263: the handler
\* calls getBottlenecks, whose callbacks run up to their first await, and
\* passes what the call returned, the promise, to res.json in the same turn.
GetApiBottlenecks ==
    /\ pc = "ready"
    /\ rets' = [i \in 1..Len(call.bottleneckZones) |->
                  LET zone == call.bottleneckZones[i]
                  IN  IF CacheFresh(congestionCache, zone, now)
                      THEN Done(BottleneckEntry(zone,
                                    [rejected |-> FALSE, weather |-> congestionCache[zone.id].data,
                                     lastUpdated |-> congestionCache[zone.id].timestamp], now))
                      ELSE Fetching]
    /\ pc' = PromiseAll(rets')
    /\ call' = [call EXCEPT !.response = ToJSON(PromiseValue)]
    /\ UNCHANGED <<now, congestionCache>>

NextEndpoint == GetApiBottlenecks \/ FetchSettles \/ TickWhilePending

SpecEndpoint == InitEndpoint /\ [][NextEndpoint]_vars

\* C30: when the response of GET /api/bottlenecks has been sent,
\* getBottlenecks has resolved, and the `bottlenecks` member of the response
\* is the resolved list: one entry per catalogue zone, with its severity and
\* estimatedDelay.
C30_ResponseAfterResolution ==
    call.response.sent =>
        /\ pc = "resolved"
        /\ call.response = ToJSON(ArrayValue([i \in 1..Len(rets) |-> rets[i].entry]))

====
